---------------------------- MODULE Spec2Model ----------------------------
(***************************************************************************)
(* State-machine model of the HVAC floor-plan simulator:                   *)
(*   Model.py       Point, Node, NodeType hierarchy, Sensor, Grid,         *)
(*                  StaggeredGrid                                          *)
(*   Controller.py  Controller (mode state machine)                        *)
(*   main.py        SimulationManager.run_simulation (layout, main loop)   *)
(*   Constants.py   constants and UI_Constants                             *)
(*                                                                         *)
(* Representation.                                                         *)
(*   Point            <<x, y>>                                             *)
(*   Python object    its index in the sequence `specs` (allocation order);*)
(*                    0 is None                                            *)
(*   float            fixed point: temperatures in 1/TEMP_SCALE degree,    *)
(*                    heat_k in 1/K_SCALE, velocities in 1/VEL_SCALE       *)
(*   dict             a function, its insertion order kept beside it where *)
(*                    the code iterates over it (grid_keys)                *)
(*   raised exception the operation leaves the state as it was and         *)
(*                    `last.raised` names the exception                    *)
(***************************************************************************)
EXTENDS Integers, Sequences, FiniteSets, TLC

VARIABLES
    grid_map,        \* Grid.grid_map: Point -> Node (class-level dict)
    grid_keys,       \* insertion order of grid_map's keys
    grid_size,       \* Grid.grid_size of the constructed Grid, <<rows, cols>>
    specs,           \* every NodeType object constructed so far, in order
    hor_grid,        \* hor_grid.velocity_map (StaggeredGrid)
    vert_grid,       \* vert_grid.velocity_map (StaggeredGrid)
    controller,      \* Controller: devices, current_mode
    ui,              \* UI_Constants class attributes
    setpoint_value,  \* SimulationManager.setpoint_value
    tick,            \* iterations of the main loop so far
    running,         \* SimulationManager.running
    grids,           \* the Grid objects constructed so far: location, grid_size
    points,          \* Point objects held by a caller: their x and y
    calls,           \* Node methods called directly so far
    last             \* the call made by the last step, with its arguments

vars == <<grid_map, grid_keys, grid_size, specs, hor_grid, vert_grid,
          controller, ui, setpoint_value, tick, running, grids, points,
          calls, last>>

-----------------------------------------------------------------------------
(* Bounds of the model *)

\* the screen is GridCols x GridRows cells (Constants.py has 240 x 130)
GridCols == 5
GridRows == 5
\* constructions of NodeType objects in one layout
MaxSpecs == 3
\* largest room dimension handed to Wall/Room
MaxRoom == 1
\* main-loop iterations
MaxTicks == 2
\* footprints scaled to the small screen: Constants.py has DOOR_SIZE = 8 and
\* HEATER_SIZE = 4, TemperatureScale.__init__ has spec_size [20, COLOR_RANGE*2]
DoorCells == 2
HeaterCells == 1
ScaleCols == 1
ScaleRows == 2
\* iterations the divergence loop is followed for
MaxIter == 3
MaxDevices == 2
\* samples a sensor's data is followed for
MaxSamples == 2
\* direct calls of Node methods that are followed
MaxCalls == 2
\* Grid objects that are constructed one after the other
MaxGrids == 3
\* Point objects a caller holds, and the largest coordinate followed
MaxPoints == 2
MaxCoord == 2

-----------------------------------------------------------------------------
(* Constants.py *)

NODE_SIZE == 5
DOOR_SIZE == DoorCells
HEATER_SIZE == HeaterCells
COOLER_SIZE == 2

\* fixed point
TEMP_SCALE == 1000 * 1000
K_SCALE == 1000 * 1000
VEL_SCALE == 10 * 10

\* K_AIR_GRID = 1.4558e-7 * DT / M_TO_NODE ** 2 = 8.7348e-4, in 1/K_SCALE
K_AIR_GRID == 873
\* K_WALL = 8.348e-8 * DT / (2*M_TO_NODE) ** 2 = 1.2522e-4, in 1/K_SCALE
K_WALL == 125
\* TOLERANCE = 2.0 degrees
TOLERANCE == 2
\* the 0.01 of "while abs(divergence)<0.01" (Model.py:233), in 1/VEL_SCALE
DIVERGENCE_TOLERANCE == 1
GRID_WIDTH == GridCols * NODE_SIZE
GRID_HEIGHT == GridRows * NODE_SIZE
MIN_WIDTH == 0
MIN_HEIGHT == 0
SCREEN_WIDTH == GRID_WIDTH + MIN_WIDTH * 2
SCREEN_HEIGHT == GRID_HEIGHT + MIN_HEIGHT * 2
MAX_WIDTH == SCREEN_WIDTH - MIN_WIDTH
MAX_HEIGHT == SCREEN_HEIGHT - MIN_HEIGHT
WALL_THICKNESS == NODE_SIZE
COLS == GRID_WIDTH \div NODE_SIZE
ROWS == GRID_HEIGHT \div NODE_SIZE

\* Constants.py:13 "# INITIAL_TEMPERATURE = 22.0" is commented out and no other
\* module defines the name: Model.py:374 reads an undefined global
INITIAL_TEMPERATURE_is_defined == FALSE
\* the value in that comment, in degrees
INITIAL_TEMPERATURE == 22

-----------------------------------------------------------------------------
(* Point *)

Point(x, y) == <<x, y>>
Px(p) == p[1]
Py(p) == p[2]

Abs(v) == IF v < 0 THEN -v ELSE v

\* Python's int(): truncation toward zero (TLA+ \div is the floor)
Trunc(a, b) == IF a >= 0 THEN a \div b ELSE -((-a) \div b)

\* range(n)
Range(n) == 0 .. (n - 1)

\* a degree value of the UI in fixed point
Deg(v) == v * TEMP_SCALE

None == 0

-----------------------------------------------------------------------------
(* Node and Grid *)

\* Node.__init__
Node(location) ==
    [location |-> location, neighbors |-> <<>>, spec |-> None,
     temperature |-> 0, velocity_nodes |-> <<>>, velocity_u |-> 0,
     velocity_v |-> 0, velocity_magnitude |-> 0]

\* the locations Grid.create_grid assigns, in the order of its two loops
create_grid_locations(location, size, node_size) ==
    [k \in 1 .. (size[2] * size[1]) |->
        LET i == (k - 1) \div size[1]
            j == (k - 1) % size[1]
        IN  Point(i * node_size + MIN_WIDTH + Px(location),
                  j * node_size + MIN_HEIGHT + Py(location))]

SeqRange(s) == {s[k] : k \in DOMAIN s}

\* Grid.create_grid: a fresh Node under every location (the dict is the
\* class-level one, so entries of an earlier Grid stay unless overwritten)
create_grid(gm, location, size, node_size) ==
    LET new == SeqRange(create_grid_locations(location, size, node_size))
    IN  [l \in (DOMAIN gm) \cup new |-> IF l \in new THEN Node(l) ELSE gm[l]]

\* a dict keeps the position of a key that is assigned again
create_grid_keys(keys, location, size, node_size) ==
    keys \o SelectSeq(create_grid_locations(location, size, node_size),
                      LAMBDA l : l \notin SeqRange(keys))

\* the (i, j) pairs of set_neighbors' two loops, in order
NeighborOffsets ==
    <<  <<-1, -1>>, <<-1, 0>>, <<-1, 1>>,
        <<0, -1>>,  <<0, 0>>,  <<0, 1>>,
        <<1, -1>>,  <<1, 0>>,  <<1, 1>>  >>

\* mutant: the last diagonal is missing from the elif
NeighborOffsetKept_OneDiagonalLost(i, j) ==
    \/ (i = 0 /\ j = 0)
    \/ (i = -1 /\ j = -1)
    \/ (i = -1 /\ j = 1)
    \/ (i = 1 /\ j = -1)

\* mutant: the cell to the east is kept as well
NeighborOffsetKept_WithEast(i, j) ==
    \/ (i = 0 /\ j = 0)
    \/ (i = -1 /\ j = -1)
    \/ (i = -1 /\ j = 1)
    \/ (i = 1 /\ j = -1)
    \/ (i = 1 /\ j = 1)
    \/ (i = 1 /\ j = 0)

\* the condition of the elif at Model.py:708
NeighborOffsetKept(i, j) ==
    \/ (i = 0 /\ j = 0)
    \/ (i = -1 /\ j = -1)
    \/ (i = -1 /\ j = 1)
    \/ (i = 1 /\ j = -1)
    \/ (i = 1 /\ j = 1)

\* what set_neighbors appends to one node's neighbors
node_neighbors(gm, location, node_size) ==
    LET sum(o) == Point(Px(location) + o[1] * node_size,
                        Py(location) + o[2] * node_size)
        keep(o) ==
            /\ ~ (\/ Px(sum(o)) < MIN_WIDTH
                  \/ Px(sum(o)) > MAX_WIDTH
                  \/ Py(sum(o)) < MIN_HEIGHT
                  \/ Py(sum(o)) > MAX_HEIGHT)
            /\ NeighborOffsetKept(o[1], o[2])
            /\ sum(o) \in DOMAIN gm
        kept == SelectSeq(NeighborOffsets, keep)
    IN  [k \in DOMAIN kept |-> sum(kept[k])]

\* Grid.set_neighbors
set_neighbors(gm, node_size) ==
    [l \in DOMAIN gm |->
        [gm[l] EXCEPT !.neighbors = @ \o node_neighbors(gm, l, node_size)]]

\* the attributes Grid.__init__ gives the instance
GridObject(location, size) == [location |-> location, grid_size |-> size]

\* StaggeredGrid.__init__ / create_staggered_grid: velocity_map
StaggeredGrid(location, size, node_size) ==
    LET keys == {Point(i * node_size + MIN_WIDTH + Px(location),
                       j * node_size + MIN_HEIGHT + Py(location)) :
                    i \in Range(size[2]), j \in Range(size[1])}
    IN  [l \in keys |-> 0]

-----------------------------------------------------------------------------
(* NodeType hierarchy *)

\* NodeType.__init__, with the attributes the subclasses add at their defaults
NodeType ==
    [kind |-> "NodeType", temperature |-> 0, spec_size |-> <<0, 0>>,
     spec_map |-> {}, shares_grid_map |-> FALSE, location |-> Point(0, 0),
     heat_k |-> 0, is_on |-> FALSE, emit_temperature |-> 0,
     open_status |-> FALSE, direction |-> Point(0, 0), emit_airflow |-> 0,
     data |-> <<>>, devices |-> <<>>, wall |-> None]

IsKind(sp, id, kind) == id # None /\ sp[id].kind = kind

\* the keys of a spec's spec_map: Outdoors holds the grid's own dict
\* (Model.py:350), every other spec a dict of its own
spec_map_keys(gm, s) == IF s.shares_grid_map THEN DOMAIN gm ELSE s.spec_map

\* the locations create_node_type_map looks up
Footprint(location, spec_size) ==
    {Point(i * NODE_SIZE + Px(location), j * NODE_SIZE + Py(location)) :
        i \in Range(spec_size[1]), j \in Range(spec_size[2])}

\* NodeType.create_node_type_map raises KeyError at grid.grid_map[location]
create_node_type_map_raises(gm, s) ==
    \E l \in Footprint(s.location, s.spec_size) : l \notin DOMAIN gm

\* NodeType.create_node_type_map
create_node_type_map(gm, s) ==
    [s EXCEPT !.spec_map = @ \cup Footprint(s.location, s.spec_size)]

\* mutant: a Door is assigned like every other spec
set_node_type_DoorAnywhere(gm, sp, id, s) ==
    [l \in DOMAIN gm |->
        IF gm[l].location \in spec_map_keys(gm, s)
        THEN [gm[l] EXCEPT !.spec = id, !.temperature = s.temperature]
        ELSE gm[l]]

\* mutant: a node that already has a spec other than Outdoors keeps it
set_node_type_KeepsFirst(gm, sp, id, s) ==
    [l \in DOMAIN gm |->
        IF /\ gm[l].location \in spec_map_keys(gm, s)
           /\ (gm[l].spec = None \/ IsKind(sp, gm[l].spec, "Outdoors")
                    \/ (s.kind = "Door" /\ IsKind(sp, gm[l].spec, "Wall")))
           /\ (s.kind = "Door" => IsKind(sp, gm[l].spec, "Wall"))
        THEN [gm[l] EXCEPT !.spec = id, !.temperature = s.temperature]
        ELSE gm[l]]

\* NodeType.set_node_type, for the object `s` allocated as `id`
set_node_type(gm, sp, id, s) ==
    [l \in DOMAIN gm |->
        IF s.kind = "Door"
        THEN IF IsKind(sp, gm[l].spec, "Wall") /\ gm[l].location \in spec_map_keys(gm, s)
             THEN [gm[l] EXCEPT !.spec = id, !.temperature = s.temperature]
             ELSE gm[l]
        ELSE IF gm[l].location \in spec_map_keys(gm, s)
             THEN [gm[l] EXCEPT !.spec = id, !.temperature = s.temperature]
             ELSE gm[l]]

\* Outdoors.__init__ up to its set_node_type
Outdoors(u, gsize) ==
    [NodeType EXCEPT !.kind = "Outdoors", !.heat_k = K_AIR_GRID,
                     !.temperature = Deg(u.outdoor_initial_temperature),
                     !.spec_size = gsize, !.shares_grid_map = TRUE]

\* Wall.__init__ up to its create_node_type_map
Wall(u, x_axis, y_axis, location) ==
    [NodeType EXCEPT !.kind = "Wall", !.heat_k = K_WALL,
                     !.spec_size = <<x_axis + 2, y_axis + 2>>,
                     !.location = Point(Px(location) - WALL_THICKNESS,
                                        Py(location) - WALL_THICKNESS),
                     !.temperature = Deg(u.indoor_initial_temperature)]

\* Room.__init__ up to its first create_node_type_map
Room(x_axis, y_axis, location) ==
    [NodeType EXCEPT !.kind = "Room", !.heat_k = K_AIR_GRID,
                     !.spec_size = <<x_axis, y_axis>>,
                     !.location = location,
                     !.temperature = Deg(INITIAL_TEMPERATURE)]

\* Door.__init__ up to its create_node_type_map
Door(u, location, open_status) ==
    [NodeType EXCEPT !.kind = "Door",
                     !.location = Point(Px(location), Py(location)),
                     !.temperature = Deg(u.indoor_initial_temperature),
                     !.open_status = open_status,
                     !.spec_size = <<DOOR_SIZE, DOOR_SIZE>>,
                     !.heat_k = IF open_status THEN K_AIR_GRID ELSE K_WALL]

\* Device.__init__
Device(is_on) ==
    [NodeType EXCEPT !.kind = "Device", !.is_on = is_on, !.heat_k = K_AIR_GRID]

\* Heater.__init__ up to its create_node_type_map
Heater(u, location, is_on) ==
    [Device(is_on) EXCEPT !.kind = "Heater",
                     !.location = Point(Px(location), Py(location)),
                     !.temperature = Deg(u.indoor_initial_temperature),
                     !.emit_temperature = Deg(u.heater_initial_temperature),
                     !.spec_size = <<HEATER_SIZE, HEATER_SIZE>>]

\* AirConditioner.__init__ up to its create_node_type_map
AirConditioner(u, location, is_on) ==
    [Device(is_on) EXCEPT !.kind = "AirConditioner",
                     !.location = Point(Px(location), Py(location)),
                     !.temperature = Deg(u.indoor_initial_temperature),
                     !.emit_temperature = Deg(u.cooler_initial_temperature),
                     !.spec_size = <<COOLER_SIZE, COOLER_SIZE>>]

\* Fan.__init__ up to its create_node_type_map; direction is held in halves
\* (<<1, 1>> is Point(0.5, 0.5), <<0, 2>> is Point(0, 1))
Fan(u, location, direction, is_on) ==
    [Device(is_on) EXCEPT !.kind = "Fan",
                     !.location = Point(Px(location), Py(location)),
                     !.temperature = Deg(u.indoor_initial_temperature),
                     !.emit_temperature = Deg(u.indoor_initial_temperature),
                     !.direction = Point(Px(direction), Py(direction)),
                     !.emit_airflow = u.fan_airflow_speed,
                     !.spec_size = <<COOLER_SIZE, COOLER_SIZE>>]

\* mutant: a Sensor has no heat coefficient
Sensor_NoHeatK(u, location) ==
    [NodeType EXCEPT !.kind = "Sensor",
                     !.location = Point(Px(location), Py(location)),
                     !.temperature = Deg(u.indoor_initial_temperature),
                     !.spec_size = <<1, 1>>, !.heat_k = 0]

\* Sensor.__init__ up to its create_node_type_map
Sensor(u, location) ==
    [NodeType EXCEPT !.kind = "Sensor",
                     !.location = Point(Px(location), Py(location)),
                     !.temperature = Deg(u.indoor_initial_temperature),
                     !.spec_size = <<1, 1>>, !.heat_k = K_AIR_GRID]

\* TemperatureScale.__init__ up to its create_node_type_map
TemperatureScale(u, location) ==
    [NodeType EXCEPT !.kind = "TemperatureScale",
                     !.location = Point(Px(location), Py(location)),
                     !.temperature = Deg(u.indoor_initial_temperature),
                     !.spec_size = <<ScaleCols, ScaleRows>>, !.heat_k = 0]

\* mutant: the nodes of the footprint that are on the grid are assigned
\* before the lookup of a missing one raises
Placed_AssignsFirst(sp, gm, s) ==
    LET s2 == create_node_type_map(gm, s)
    IN  IF create_node_type_map_raises(gm, s)
        THEN <<sp, set_node_type(gm, sp, Len(sp) + 1, s2), "KeyError">>
        ELSE <<Append(sp, s2), set_node_type(gm, sp, Len(sp) + 1, s2), "">>

\* the tail every constructor but Outdoors' shares: create_node_type_map, then
\* set_node_type; the result is <<specs, grid_map, raised>>
Placed(sp, gm, s) ==
    IF create_node_type_map_raises(gm, s)
    THEN <<sp, gm, "KeyError">>
    ELSE LET s2 == create_node_type_map(gm, s)
         IN  <<Append(sp, s2), set_node_type(gm, sp, Len(sp) + 1, s2), "">>

\* mutant: Outdoors assigns no node
PlacedOutdoors_NoAssignment(sp, gm, u, gsize) ==
    <<Append(sp, Outdoors(u, gsize)), gm, "">>

\* Outdoors.__init__
PlacedOutdoors(sp, gm, u, gsize) ==
    LET s == Outdoors(u, gsize)
    IN  <<Append(sp, s), set_node_type(gm, sp, Len(sp) + 1, s), "">>

\* Room.__init__: the read of INITIAL_TEMPERATURE at Model.py:374 comes before
\* anything is looked up or assigned; the Room's Wall is a spec of its own,
\* complete before the Room's set_node_type
PlacedRoom(sp, gm, u, x_axis, y_axis, location) ==
    IF ~ INITIAL_TEMPERATURE_is_defined
    THEN <<sp, gm, "NameError">>
    ELSE LET r == Room(x_axis, y_axis, location)
         IN  IF create_node_type_map_raises(gm, r)
             THEN <<sp, gm, "KeyError">>
             ELSE LET w == Placed(sp, gm, Wall(u, x_axis, y_axis, location))
                  IN  IF w[3] # ""
                      THEN <<sp, gm, w[3]>>
                      ELSE Placed(w[1], w[2], [r EXCEPT !.wall = Len(w[1])])

-----------------------------------------------------------------------------
(* Node: temperature *)

\* Model.py:102 tests isinstance(self, TemperatureScale) on a Node, which is
\* never an instance of a NodeType subclass
NodeIsTemperatureScale(self) == FALSE

\* mutant: the difference is taken the other way round
heat_term_Reversed(heat_k, delta_temperature) ==
    LET a == Abs(delta_temperature)
        v == heat_k * (a \div K_SCALE) + Trunc(heat_k * (a % K_SCALE), K_SCALE)
    IN  IF delta_temperature < 0 THEN v ELSE -v

\* heat_k * delta_temperature, for heat_k in 1/K_SCALE: exact on the whole
\* degrees of the difference, truncated on the rest (the product itself does
\* not fit a 32-bit integer)
heat_term(heat_k, delta_temperature) ==
    LET a == Abs(delta_temperature)
        v == heat_k * (a \div K_SCALE) + Trunc(heat_k * (a % K_SCALE), K_SCALE)
    IN  IF delta_temperature < 0 THEN -v ELSE v

\* mutant: each term is weighted by the receiving node's heat_k
RECURSIVE sum_temperature_OwnHeatK(_, _, _, _, _)
sum_temperature_OwnHeatK(gm, sp, self, skip_walls, k) ==
    IF k > Len(self.neighbors) THEN 0
    ELSE LET neighbor == gm[self.neighbors[k]]
             rest == sum_temperature_OwnHeatK(gm, sp, self, skip_walls, k + 1)
         IN  IF skip_walls /\ IsKind(sp, neighbor.spec, "Wall")
             THEN rest
             ELSE heat_term(sp[self.spec].heat_k,
                            neighbor.temperature - self.temperature) + rest

\* sum of neighbor.spec.heat_k * (neighbor.temperature - self.temperature) over
\* the neighbors from position k on
RECURSIVE sum_temperature(_, _, _, _, _)
sum_temperature(gm, sp, self, skip_walls, k) ==
    IF k > Len(self.neighbors) THEN 0
    ELSE LET neighbor == gm[self.neighbors[k]]
             rest == sum_temperature(gm, sp, self, skip_walls, k + 1)
         IN  IF skip_walls /\ IsKind(sp, neighbor.spec, "Wall")
             THEN rest
             ELSE heat_term(sp[neighbor.spec].heat_k,
                            neighbor.temperature - self.temperature) + rest

\* mutant: an active Heater or AirConditioner node is updated like any other
set_temperature_NoDeviceBranch(gm, sp, l) ==
    LET self == gm[l]
    IN  self.temperature
            + sum_temperature(gm, sp, self, IsKind(sp, self.spec, "Sensor"), 1)

\* Node.set_temperature: the temperature it returns
set_temperature(gm, sp, l) ==
    LET self == gm[l]
    IN  IF NodeIsTemperatureScale(self)
        THEN self.temperature
        ELSE IF /\ (IsKind(sp, self.spec, "Heater")
                        \/ IsKind(sp, self.spec, "AirConditioner"))
                /\ sp[self.spec].is_on
        THEN sp[self.spec].emit_temperature
        ELSE IF IsKind(sp, self.spec, "Sensor")
        THEN self.temperature + sum_temperature(gm, sp, self, TRUE, 1)
        ELSE self.temperature + sum_temperature(gm, sp, self, FALSE, 1)

\* Node.change_color: the node's new temperature (its color is rendering only)
change_color(gm, sp, l) ==
    [gm EXCEPT ![l].temperature = set_temperature(gm, sp, l)]

-----------------------------------------------------------------------------
(* Node: airflow *)

\* Coordinates, as positions in velocity_nodes
EAST == 1
WEST == 2
SOUTH == 3
NORTH == 4

\* mutant: the guard tests the right border only
OnFarBorder_RightOnly(l) == Px(l) + 5 >= MAX_WIDTH

\* the guard "i+5 >= MAX_WIDTH or j+5 >= MAX_HEIGHT" of set_velocity_grid,
\* update_airflow and calculate_velocity_magnitude
OnFarBorder(l) == Px(l) + 5 >= MAX_WIDTH \/ Py(l) + 5 >= MAX_HEIGHT

\* Node.set_velocity_grid: the node's velocity_nodes (the staggered grids map
\* every location to itself)
set_velocity_grid(l) ==
    IF OnFarBorder(l) THEN << >>
    ELSE << Point(Px(l) + 5, Py(l) + 2), Point(Px(l), Py(l) + 2),
            Point(Px(l) + 2, Py(l) + 5), Point(Px(l) + 2, Py(l)) >>

\* mutant: the loop runs while the divergence is not below the tolerance
RECURSIVE divergence_loop_Runs(_, _, _, _, _)
divergence_loop_Runs(divergence, f, counter, open, fuel) ==
    IF Abs(divergence) >= DIVERGENCE_TOLERANCE /\ fuel > 0 /\ counter # 0
    THEN LET d == Trunc(19 * (f[EAST] - f[WEST] - f[SOUTH] + f[NORTH]), 10)
             q == Trunc(d, counter)
         IN  divergence_loop_Runs(d,
                                  << (f[EAST] - q) * open[EAST],
                                     (f[WEST] + q) * open[WEST],
                                     (f[SOUTH] + q) * open[SOUTH],
                                     (f[NORTH] - q) * open[NORTH] >>,
                                  counter, open, fuel - 1)
    ELSE f

\* the loop "while abs(divergence)<0.01" of update_airflow, followed for at
\* most `fuel` iterations; f holds the four face velocities, open the four
\* wall multipliers. 1.9 is 19/10; a zero counter raises ZeroDivisionError,
\* which leaves the faces as they are
RECURSIVE divergence_loop(_, _, _, _, _)
divergence_loop(divergence, f, counter, open, fuel) ==
    IF Abs(divergence) < DIVERGENCE_TOLERANCE /\ fuel > 0 /\ counter # 0
    THEN LET d == Trunc(19 * (f[EAST] - f[WEST] - f[SOUTH] + f[NORTH]), 10)
             q == Trunc(d, counter)
         IN  divergence_loop(d,
                             << (f[EAST] - q) * open[EAST],
                                (f[WEST] + q) * open[WEST],
                                (f[SOUTH] + q) * open[SOUTH],
                                (f[NORTH] - q) * open[NORTH] >>,
                             counter, open, fuel - 1)
    ELSE f

\* the four face velocities of a node
Faces(self, hor, vert) ==
    << hor[self.velocity_nodes[EAST]], hor[self.velocity_nodes[WEST]],
       vert[self.velocity_nodes[SOUTH]], vert[self.velocity_nodes[NORTH]] >>

\* the velocity maps with a node's four faces set
WithFaces(self, hor, vert, f) ==
    << [hor EXCEPT ![self.velocity_nodes[EAST]] = f[EAST],
                   ![self.velocity_nodes[WEST]] = f[WEST]],
       [vert EXCEPT ![self.velocity_nodes[SOUTH]] = f[SOUTH],
                    ![self.velocity_nodes[NORTH]] = f[NORTH]] >>

\* a fan's emit_airflow * direction component (direction is in halves)
Emitted(s, component) == (s.emit_airflow * component * VEL_SCALE) \div 2

\* Node.update_airflow: <<hor_grid.velocity_map, vert_grid.velocity_map>>
update_airflow(gm, sp, hor, vert, l) ==
    LET self == gm[l]
    IN  IF OnFarBorder(l) THEN <<hor, vert>>
        ELSE IF IsKind(sp, self.spec, "Wall")
        THEN WithFaces(self, hor, vert, <<0, 0, 0, 0>>)
        ELSE
        LET f0 == Faces(self, hor, vert)
            fan == IsKind(sp, self.spec, "Fan")
            dx == IF fan THEN Px(sp[self.spec].direction) ELSE 0
            dy == IF fan THEN Py(sp[self.spec].direction) ELSE 0
            f1 == << IF fan /\ dx >= 0 THEN Emitted(sp[self.spec], dx) ELSE f0[EAST],
                     IF fan /\ ~ (dx >= 0) THEN Emitted(sp[self.spec], dx) ELSE f0[WEST],
                     IF fan /\ dy >= 0 THEN Emitted(sp[self.spec], dy) ELSE f0[SOUTH],
                     IF fan /\ ~ (dy >= 0) THEN Emitted(sp[self.spec], dy) ELSE f0[NORTH] >>
            walls == SelectSeq(self.neighbors,
                               LAMBDA n : IsKind(sp, gm[n].spec, "Wall"))
            counter == 4 - Len(walls)
            wall_at(test(_)) == \E k \in DOMAIN walls : test(gm[walls[k]].location)
            west(n) == Px(n) < Px(l)
            east(n) == ~ west(n) /\ Px(n) > Px(l)
            north(n) == ~ west(n) /\ ~ east(n) /\ Py(n) < Py(l)
            south(n) == ~ west(n) /\ ~ east(n) /\ ~ north(n) /\ Py(n) > Py(l)
            open == << IF wall_at(east) THEN 0 ELSE 1,
                       IF wall_at(west) THEN 0 ELSE 1,
                       IF wall_at(south) THEN 0 ELSE 1,
                       IF wall_at(north) THEN 0 ELSE 1 >>
            f2 == [c \in 1 .. 4 |-> IF open[c] = 0 THEN 0 ELSE f1[c]]
        IN  WithFaces(self, hor, vert,
                      divergence_loop(VEL_SCALE, f2, counter, open, MaxIter))

\* floor of the square root of v, known to lie in lo .. hi
RECURSIVE ISqrtIn(_, _, _)
ISqrtIn(v, lo, hi) ==
    IF lo >= hi THEN lo
    ELSE LET mid == (lo + hi + 1) \div 2
         IN  IF mid * mid <= v THEN ISqrtIn(v, mid, hi) ELSE ISqrtIn(v, lo, mid - 1)

\* math.sqrt, in fixed point
Sqrt(u, v) == ISqrtIn(u * u + v * v, 0, Abs(u) + Abs(v))

\* Node.calculate_velocity_magnitude
calculate_velocity_magnitude(gm, hor, vert, l) ==
    IF OnFarBorder(l) THEN gm
    ELSE LET f == Faces(gm[l], hor, vert)
             u == f[EAST] + f[WEST]
             v == f[SOUTH] + f[NORTH]
         IN  [gm EXCEPT ![l].velocity_u = u, ![l].velocity_v = v,
                        ![l].velocity_magnitude = Sqrt(u, v)]

\* the node loop of run_simulation (main.py:352-357) from position k of
\* grid_map on: <<grid_map, hor velocity_map, vert velocity_map>>
RECURSIVE node_pass(_, _, _, _, _, _)
node_pass(gm, sp, hor, vert, keys, k) ==
    IF k > Len(keys) THEN <<gm, hor, vert>>
    ELSE LET l == keys[k]
         IN  IF IsKind(sp, gm[l].spec, "TemperatureScale")
             THEN node_pass(gm, sp, hor, vert, keys, k + 1)
             ELSE LET gm1 == change_color(gm, sp, l)
                      hv == update_airflow(gm1, sp, hor, vert, l)
                      gm2 == calculate_velocity_magnitude(gm1, hv[1], hv[2], l)
                  IN  node_pass(gm2, sp, hv[1], hv[2], keys, k + 1)

-----------------------------------------------------------------------------
(* Inputs *)

\* the values the dashboard starts from, as in the comment at Constants.py:12-16
DefaultConditions ==
    [indoor_initial_temperature |-> 22, outdoor_initial_temperature |-> -10,
     heater_initial_temperature |-> 63, cooler_initial_temperature |-> 5,
     fan_airflow_speed |-> 10]

\* initial conditions run_simulation copies into UI_Constants (main.py:221-225),
\* within the ranges of the dashboard's sliders and dials
InitialConditions ==
    { DefaultConditions,
      [indoor_initial_temperature |-> 12, outdoor_initial_temperature |-> 30,
       heater_initial_temperature |-> 30, cooler_initial_temperature |-> 15,
       fan_airflow_speed |-> 30] }

\* indoors and outdoors start at the same temperature
UniformConditions ==
    [DefaultConditions EXCEPT !.outdoor_initial_temperature =
                                  DefaultConditions.indoor_initial_temperature]

\* extents a Grid is built with: every extent that fits the screen
GridSizes == {<<r, c>> : r \in 1 .. ROWS, c \in 1 .. COLS}

\* top-left corners handed to the constructors: one cell in from the screen's
\* top-left corner, and two cells in from its bottom-right corner
LayoutPoints ==
    { Point(NODE_SIZE, NODE_SIZE),
      Point(MAX_WIDTH - 2 * NODE_SIZE, MAX_HEIGHT - 2 * NODE_SIZE) }

\* Point(0, 0) puts a Wall's top-left corner outside the grid
WallPoints == LayoutPoints \cup {Point(0, 0)}

RoomSizes == {<<w, w>> : w \in 0 .. MaxRoom}

\* fan directions, in halves
Directions == {Point(1, 1), Point(0, 2), Point(-2, 0)}

-----------------------------------------------------------------------------
(* Layout: Grid and NodeType constructions *)

Call(op, id, location, raised) ==
    [op |-> op, id |-> id, location |-> location, raised |-> raised]

InitLayout ==
    /\ running = FALSE
    /\ grids = << >>
    /\ points = << >>
    /\ calls = 0
    /\ grid_map = << >>
    /\ grid_keys = << >>
    /\ grid_size = << >>
    /\ specs = << >>
    /\ hor_grid = << >>
    /\ vert_grid = << >>
    /\ controller = [devices |-> << >>, current_mode |-> ""]
    /\ ui = DefaultConditions
    /\ setpoint_value = 0
    /\ tick = 0
    /\ last = Call("", None, Point(0, 0), "")

\* grid = Grid(location, size, NODE_SIZE)
NewGrid(location, size) ==
    /\ grid_size = << >>
    /\ grid_map' = set_neighbors(create_grid(grid_map, location, size, NODE_SIZE),
                                 NODE_SIZE)
    /\ grid_keys' = create_grid_keys(grid_keys, location, size, NODE_SIZE)
    /\ grid_size' = size
    /\ grids' = Append(grids, GridObject(location, size))
    /\ last' = Call("Grid", None, location, "")
    /\ UNCHANGED <<specs, hor_grid, vert_grid, controller, ui, setpoint_value, tick,
                   running, points, calls>>

\* the effect of a constructor whose result is r = <<specs, grid_map, raised>>
\* the place of a kind in the order run_simulation constructs its layout in
\* (main.py:240-280)
Stage(kind) ==
    CASE kind = "Outdoors" -> 1
      [] kind \in {"Room", "Wall"} -> 2
      [] kind = "Door" -> 3
      [] kind = "Heater" -> 4
      [] kind = "AirConditioner" -> 5
      [] kind = "Fan" -> 6
      [] kind = "Sensor" -> 7
      [] kind = "TemperatureScale" -> 8

\* the layouts explored: any MaxSpecs constructions in any order, and at any
\* length the layouts that follow run_simulation's order, one spec per stage
Staged(sp, op) ==
    /\ \A j, k \in DOMAIN sp : j < k => Stage(sp[j].kind) < Stage(sp[k].kind)
    /\ \A k \in DOMAIN sp : Stage(sp[k].kind) < Stage(op)

\* (run_simulation lays out on the grid of main.py:237 and catches nothing: an
\* exception ends it)
Constructed(op, location, r) ==
    /\ grid_size = <<ROWS, COLS>>
    /\ last.raised = ""
    /\ Len(specs) < MaxSpecs \/ Staged(specs, op)
    /\ specs' = r[1]
    /\ grid_map' = r[2]
    /\ last' = Call(op, IF r[3] = "" THEN Len(r[1]) ELSE None, location, r[3])
    /\ UNCHANGED <<grid_keys, grid_size, hor_grid, vert_grid, controller, ui,
                   setpoint_value, tick,
                   running, grids, points, calls>>

NewOutdoors ==
    Constructed("Outdoors", Point(0, 0), PlacedOutdoors(specs, grid_map, ui, grid_size))

NewRoom(x_axis, y_axis, location) ==
    Constructed("Room", location,
                PlacedRoom(specs, grid_map, ui, x_axis, y_axis, location))

NewWall(x_axis, y_axis, location) ==
    Constructed("Wall", location,
                Placed(specs, grid_map, Wall(ui, x_axis, y_axis, location)))

NewDoor(location, open_status) ==
    Constructed("Door", location,
                Placed(specs, grid_map, Door(ui, location, open_status)))

NewHeater(location, is_on) ==
    Constructed("Heater", location,
                Placed(specs, grid_map, Heater(ui, location, is_on)))

NewAirConditioner(location, is_on) ==
    Constructed("AirConditioner", location,
                Placed(specs, grid_map, AirConditioner(ui, location, is_on)))

NewFan(location, direction, is_on) ==
    Constructed("Fan", location,
                Placed(specs, grid_map, Fan(ui, location, direction, is_on)))

NewSensor(location) ==
    Constructed("Sensor", location,
                Placed(specs, grid_map, Sensor(ui, location)))

NewTemperatureScale(location) ==
    Constructed("TemperatureScale", location,
                Placed(specs, grid_map, TemperatureScale(ui, location)))

NextLayout ==
    \/ \E size \in GridSizes : NewGrid(Point(0, 0), size)
    \/ NewOutdoors
    \/ \E rs \in RoomSizes, l \in WallPoints : NewRoom(rs[1], rs[2], l)
    \/ \E rs \in RoomSizes, l \in WallPoints : NewWall(rs[1], rs[2], l)
    \/ \E l \in LayoutPoints : NewDoor(l, TRUE)
    \/ \E l \in LayoutPoints : NewHeater(l, TRUE)
    \/ \E l \in LayoutPoints : NewAirConditioner(l, TRUE)
    \/ \E l \in LayoutPoints : NewFan(l, Point(0, 2), TRUE)
    \/ \E l \in LayoutPoints : NewSensor(l)
    \/ \E l \in LayoutPoints : NewTemperatureScale(l)

SpecLayout == InitLayout /\ [][NextLayout]_vars

-----------------------------------------------------------------------------
(* Sensor and Controller *)

\* "for device in devices: device.is_on = isinstance(device, cls)"
switch_devices(sp, devices, cls) ==
    [k \in DOMAIN sp |->
        IF k \in SeqRange(devices)
        THEN [sp[k] EXCEPT !.is_on = (sp[k].kind = cls)]
        ELSE sp[k]]

\* Sensor.set_device
set_device(sp, sensor, device) ==
    [sp EXCEPT ![sensor].devices = Append(@, device)]

\* mutant: heater_on flips the heaters instead of turning them on
heater_on_Flips(sp, sensor) ==
    [k \in DOMAIN sp |->
        IF k \in SeqRange(sp[sensor].devices)
        THEN [sp[k] EXCEPT !.is_on = (sp[k].kind = "Heater" /\ ~ sp[k].is_on)]
        ELSE sp[k]]

\* Sensor.heater_on
heater_on(sp, sensor) == switch_devices(sp, sp[sensor].devices, "Heater")

\* mutant: ac_on turns the air conditioners on and leaves the other devices
ac_on_KeepsOthers(sp, sensor) ==
    [k \in DOMAIN sp |->
        IF k \in SeqRange(sp[sensor].devices) /\ sp[k].kind = "AirConditioner"
        THEN [sp[k] EXCEPT !.is_on = TRUE]
        ELSE sp[k]]

\* Sensor.ac_on
ac_on(sp, sensor) == switch_devices(sp, sp[sensor].devices, "AirConditioner")

\* Sensor.check_temperature, over the nodes of spec_map that are left
RECURSIVE check_temperature_loop(_, _, _, _, _)
check_temperature_loop(gm, sp, sensor, set_temp, nodes) ==
    IF nodes = {} THEN sp
    ELSE LET l == CHOOSE n \in nodes : TRUE
             sp1 == IF gm[l].temperature < Deg(set_temp) - Deg(TOLERANCE)
                    THEN heater_on(sp, sensor)
                    ELSE IF gm[l].temperature > Deg(set_temp) + Deg(TOLERANCE)
                    THEN ac_on(sp, sensor)
                    ELSE sp
         IN  check_temperature_loop(gm, sp1, sensor, set_temp, nodes \ {l})

\* Sensor.check_temperature (a Sensor's spec_map holds one node)
check_temperature(gm, sp, sensor, set_temp) ==
    check_temperature_loop(gm, sp, sensor, set_temp, sp[sensor].spec_map)

\* Controller.__init__
Controller == [devices |-> << >>, current_mode |-> ""]

\* Controller.add_devices
add_devices(ctl, devices) == [ctl EXCEPT !.devices = @ \o devices]

\* mutant: heating_mode turns the heaters on and leaves the other devices
heating_mode_KeepsOthers(sp, ctl) ==
    << [k \in DOMAIN sp |->
           IF k \in SeqRange(ctl.devices) /\ sp[k].kind = "Heater"
           THEN [sp[k] EXCEPT !.is_on = TRUE]
           ELSE sp[k]],
       [ctl EXCEPT !.current_mode = "Heating"] >>

\* Controller.heating_mode: <<specs, controller>>
heating_mode(sp, ctl) ==
    << switch_devices(sp, ctl.devices, "Heater"),
       [ctl EXCEPT !.current_mode = "Heating"] >>

\* Controller.cooling_mode
cooling_mode(sp, ctl) ==
    << switch_devices(sp, ctl.devices, "AirConditioner"),
       [ctl EXCEPT !.current_mode = "Cooling"] >>

\* mutant: ventilation_mode turns the fans on and leaves the other devices
ventilation_mode_KeepsOthers(sp, ctl) ==
    << [k \in DOMAIN sp |->
           IF k \in SeqRange(ctl.devices) /\ sp[k].kind = "Fan"
           THEN [sp[k] EXCEPT !.is_on = TRUE]
           ELSE sp[k]],
       [ctl EXCEPT !.current_mode = "Ventilation"] >>

\* Controller.ventilation_mode
ventilation_mode(sp, ctl) ==
    << switch_devices(sp, ctl.devices, "Fan"),
       [ctl EXCEPT !.current_mode = "Ventilation"] >>

\* mutant: auto_mode leaves the devices alone inside the band
auto_mode_NoVentilation(sp, ctl, current_temperature, set_point) ==
    LET r == IF current_temperature < Deg(set_point) - Deg(TOLERANCE)
             THEN heating_mode(sp, ctl)
             ELSE IF current_temperature > Deg(set_point) + Deg(TOLERANCE)
             THEN cooling_mode(sp, ctl)
             ELSE <<sp, ctl>>
    IN  << r[1], [r[2] EXCEPT !.current_mode = "Auto"] >>

\* Controller.auto_mode
auto_mode(sp, ctl, current_temperature, set_point) ==
    LET r == IF current_temperature < Deg(set_point) - Deg(TOLERANCE)
             THEN heating_mode(sp, ctl)
             ELSE IF current_temperature > Deg(set_point) + Deg(TOLERANCE)
             THEN cooling_mode(sp, ctl)
             ELSE ventilation_mode(sp, ctl)
    IN  << r[1], [r[2] EXCEPT !.current_mode = "Auto"] >>

-----------------------------------------------------------------------------
(* The simulation: run_simulation's main loop on a constructed layout *)

\* grid = Grid(Point(0, 0), [ROWS, COLS], NODE_SIZE) (main.py:237)
MainGrid ==
    set_neighbors(create_grid(<< >>, Point(0, 0), <<ROWS, COLS>>, NODE_SIZE),
                  NODE_SIZE)

MainGridKeys == create_grid_keys(<< >>, Point(0, 0), <<ROWS, COLS>>, NODE_SIZE)

\* a constructor applied after the constructions r = <<specs, grid_map, raised>>
Then(r, s) == Placed(r[1], r[2], s)

\* a closed room: a Wall block whose inside is an active Fan blowing south
FanRoom(u) ==
    Then(Then(PlacedOutdoors(<< >>, MainGrid, u, <<ROWS, COLS>>),
              Wall(u, COOLER_SIZE, COOLER_SIZE, Point(NODE_SIZE, NODE_SIZE))),
         Fan(u, Point(NODE_SIZE, NODE_SIZE), Point(0, 2), TRUE))

\* a Wall block opened inside by an open Door, with a Heater and a Sensor in
\* it and an AirConditioner at its corner
HeatedRoom(u, heater_is_on, cooler_is_on) ==
    Then(Then(Then(Then(Then(PlacedOutdoors(<< >>, MainGrid, u, <<ROWS, COLS>>),
                             Wall(u, DOOR_SIZE, DOOR_SIZE, Point(NODE_SIZE, NODE_SIZE))),
                        Door(u, Point(NODE_SIZE, NODE_SIZE), TRUE)),
                   Heater(u, Point(NODE_SIZE, NODE_SIZE), heater_is_on)),
              AirConditioner(u, Point(MAX_WIDTH - 2 * NODE_SIZE, MAX_HEIGHT - 2 * NODE_SIZE),
                             cooler_is_on)),
         Sensor(u, Point(2 * NODE_SIZE, 2 * NODE_SIZE)))

\* no walls: a Heater, a Fan blowing north-west over the legend's column, a
\* Sensor and the legend
OpenPlan(u, heater_is_on) ==
    Then(Then(Then(Then(PlacedOutdoors(<< >>, MainGrid, u, <<ROWS, COLS>>),
                        Heater(u, Point(2 * NODE_SIZE, 2 * NODE_SIZE), heater_is_on)),
                   Fan(u, Point(NODE_SIZE, 0), Point(-2, 0), TRUE)),
              Sensor(u, Point(NODE_SIZE, 3 * NODE_SIZE))),
         TemperatureScale(u, Point(0, 0)))

\* nothing but a Heater, on, in the middle of the grid
HeaterOnly(u) ==
    Then(PlacedOutdoors(<< >>, MainGrid, u, <<ROWS, COLS>>),
         Heater(u, Point(2 * NODE_SIZE, 2 * NODE_SIZE), TRUE))

\* a closed room: a Wall block whose inside is a Fan blowing north
WindRoom(u, is_on) ==
    Then(Then(PlacedOutdoors(<< >>, MainGrid, u, <<ROWS, COLS>>),
              Wall(u, COOLER_SIZE, COOLER_SIZE, Point(NODE_SIZE, NODE_SIZE))),
         Fan(u, Point(NODE_SIZE, NODE_SIZE), Point(0, -2), is_on))

SimLayouts(u) ==
    {FanRoom(u), HeaterOnly(u)}
        \cup {WindRoom(u, f) : f \in BOOLEAN}
        \cup {HeatedRoom(u, h, c) : h \in BOOLEAN, c \in BOOLEAN}
        \cup {OpenPlan(u, h) : h \in BOOLEAN}

\* the specs of the given kinds, in construction order
OfKinds(sp, kinds) == SelectSeq([k \in DOMAIN sp |-> k], LAMBDA k : sp[k].kind \in kinds)

\* the state run_simulation enters its main loop in (main.py:305): the layout,
\* the controller with the heaters and coolers added twice (main.py:276-278),
\* every node's velocity_nodes set (main.py:302-303)
InitSim ==
    \E u \in InitialConditions \cup {UniformConditions} : \E r \in SimLayouts(u) :
        /\ ui = u
        /\ running = TRUE
        /\ grids = << GridObject(Point(0, 0), <<ROWS, COLS>>) >>
        /\ points = << >>
        /\ calls = 0
        /\ specs = r[1]
        /\ grid_map = [l \in DOMAIN r[2] |->
                          [r[2][l] EXCEPT !.velocity_nodes = @ \o set_velocity_grid(l)]]
        /\ grid_keys = MainGridKeys
        /\ grid_size = <<ROWS, COLS>>
        /\ vert_grid = StaggeredGrid(Point((-NODE_SIZE) \div 2, 0), <<ROWS, COLS + 1>>,
                                     NODE_SIZE)
        /\ hor_grid = StaggeredGrid(Point(0, (-NODE_SIZE) \div 2), <<ROWS + 1, COLS>>,
                                    NODE_SIZE)
        /\ controller =
              LET devices == OfKinds(r[1], {"Heater", "AirConditioner"})
              IN  add_devices(add_devices(Controller, devices), devices)
        /\ setpoint_value = 20
        /\ tick = 0
        /\ last = Call("", None, Point(0, 0), "")

\* one iteration of the main loop's node pass (main.py:352-357)
Tick ==
    /\ running
    /\ tick < MaxTicks
    /\ LET r == node_pass(grid_map, specs, hor_grid, vert_grid, grid_keys, 1)
       IN  /\ grid_map' = r[1]
           /\ hor_grid' = r[2]
           /\ vert_grid' = r[3]
    /\ tick' = tick + 1
    /\ last' = Call("tick", None, Point(0, 0), "")
    /\ UNCHANGED <<grid_keys, grid_size, specs, controller, ui, setpoint_value,
                   running, grids, points, calls>>

\* the effect of a Controller method whose result is r = <<specs, controller>>
Controlled(op, r) ==
    /\ specs' = r[1]
    /\ controller' = r[2]
    /\ last' = Call(op, None, Point(0, 0), "")
    /\ UNCHANGED <<grid_map, grid_keys, grid_size, hor_grid, vert_grid, ui,
                   setpoint_value, tick,
                   running, grids, points, calls>>

\* SimulationManager.set_heating_mode
HeatingMode == Controlled("heating_mode", heating_mode(specs, controller))

\* SimulationManager.set_cooling_mode
CoolingMode == Controlled("cooling_mode", cooling_mode(specs, controller))

\* SimulationManager.set_ventilation_mode
VentilationMode == Controlled("ventilation_mode", ventilation_mode(specs, controller))

\* the GET_SENSOR_DATA handler (main.py:317-320) from position k of grid_map
\* on: every node whose spec is a Sensor appends its temperature to spec.data
RECURSIVE get_sensor_data(_, _, _, _)
get_sensor_data(gm, sp, keys, k) ==
    IF k > Len(keys) THEN sp
    ELSE LET node == gm[keys[k]]
             sp1 == IF IsKind(sp, node.spec, "Sensor")
                    THEN [sp EXCEPT ![node.spec].data = Append(@, node.temperature)]
                    ELSE sp
         IN  get_sensor_data(gm, sp1, keys, k + 1)

\* SimulationManager.clear_plots: sensor1.data = [], sensor2.data = [] (the
\* Sensors run_simulation constructed)
clear_plots(sp) ==
    [k \in DOMAIN sp |-> IF sp[k].kind = "Sensor" THEN [sp[k] EXCEPT !.data = << >>]
                         ELSE sp[k]]

\* the GET_SENSOR_DATA event of the main loop
GetSensorData ==
    /\ running
    /\ \A k \in DOMAIN specs : Len(specs[k].data) < MaxSamples
    /\ specs' = get_sensor_data(grid_map, specs, grid_keys, 1)
    /\ last' = Call("GET_SENSOR_DATA", None, Point(0, 0), "")
    /\ UNCHANGED <<grid_map, grid_keys, grid_size, hor_grid, vert_grid, controller,
                   ui, setpoint_value, tick, running, grids, points, calls>>

\* the pygame.QUIT event (main.py:310-314): running = False, and unchecking
\* the On/Off button calls startSimulation(False) (main.py:164-167), which
\* clears the plots
Quit ==
    /\ running
    /\ running' = FALSE
    /\ specs' = clear_plots(specs)
    /\ last' = Call("QUIT", None, Point(0, 0), "")
    /\ UNCHANGED <<grid_map, grid_keys, grid_size, hor_grid, vert_grid, controller,
                   ui, setpoint_value, tick, grids, points, calls>>

\* SimulationManager.set_auto_mode: current_mode = "Auto"; setpoint_value is
\* read again from the setpoint slider, whose value it holds already
set_auto_mode(ctl) == [ctl EXCEPT !.current_mode = "Auto"]

\* mutant: in Heating mode the handler goes to Auto whatever the temperature
RECURSIVE check_temperature_event_Always(_, _, _, _, _, _, _)
check_temperature_event_Always(gm, sp, ctl, u, set_point, keys, k) ==
    IF k > Len(keys) THEN <<sp, ctl>>
    ELSE LET node == gm[keys[k]]
             r == IF ~ IsKind(sp, node.spec, "Sensor") THEN <<sp, ctl>>
                  ELSE IF ctl.current_mode = "Heating"
                  THEN auto_mode(sp, set_auto_mode(ctl), node.temperature, set_point)
                  ELSE IF /\ ctl.current_mode = "Cooling"
                          /\ node.temperature < Deg(u.cooler_initial_temperature)
                  THEN auto_mode(sp, set_auto_mode(ctl), node.temperature, set_point)
                  ELSE IF ctl.current_mode = "Auto"
                  THEN auto_mode(sp, set_auto_mode(ctl), node.temperature, set_point)
                  ELSE <<sp, ctl>>
         IN  check_temperature_event_Always(gm, r[1], r[2], u, set_point, keys, k + 1)

\* the CHECK_TEMPERATURE handler (main.py:322-340) from position k of grid_map
\* on: <<specs, controller>>
RECURSIVE check_temperature_event(_, _, _, _, _, _, _)
check_temperature_event(gm, sp, ctl, u, set_point, keys, k) ==
    IF k > Len(keys) THEN <<sp, ctl>>
    ELSE LET node == gm[keys[k]]
             r == IF ~ IsKind(sp, node.spec, "Sensor") THEN <<sp, ctl>>
                  ELSE IF /\ ctl.current_mode = "Heating"
                          /\ node.temperature > Deg(u.heater_initial_temperature)
                  THEN auto_mode(sp, set_auto_mode(ctl), node.temperature, set_point)
                  ELSE IF /\ ctl.current_mode = "Cooling"
                          /\ node.temperature < Deg(u.cooler_initial_temperature)
                  THEN auto_mode(sp, set_auto_mode(ctl), node.temperature, set_point)
                  ELSE IF ctl.current_mode = "Auto"
                  THEN auto_mode(sp, set_auto_mode(ctl), node.temperature, set_point)
                  ELSE <<sp, ctl>>
         IN  check_temperature_event(gm, r[1], r[2], u, set_point, keys, k + 1)

\* the CHECK_TEMPERATURE event of the main loop
CheckTemperatureEvent ==
    /\ running
    /\ Controlled("CHECK_TEMPERATURE",
                  check_temperature_event(grid_map, specs, controller, ui,
                                          setpoint_value, grid_keys, 1))

\* the Auto mode button: SimulationManager.set_auto_mode
SetAutoMode == Controlled("set_auto_mode", <<specs, set_auto_mode(controller)>>)

Next ==
    \/ Tick
    \/ GetSensorData
    \/ Quit
    \/ HeatingMode
    \/ CoolingMode
    \/ VentilationMode
    \/ SetAutoMode
    \/ CheckTemperatureEvent

Spec == InitSim /\ [][Next]_vars

-----------------------------------------------------------------------------
(* The control operations: the Sensor's and the Controller's methods, called
   in any order on a layout with one device of each class and a Sensor *)

\* the positions the setpoint slider is moved to, within its range 10 .. 30
\* (hvac_dashboard_ui.py): they put an indoor temperature of 22 below, on both
\* edges of, inside and above the band
SetPoints == {10, 20, 21, 24, 30}

\* a Heater, an AirConditioner, a Fan and a Sensor, outdoors
ControlLayout(u, heater_is_on, cooler_is_on) ==
    Then(Then(Then(Then(PlacedOutdoors(<< >>, MainGrid, u, <<ROWS, COLS>>),
                        Heater(u, Point(NODE_SIZE, NODE_SIZE), heater_is_on)),
                   AirConditioner(u, Point(MAX_WIDTH - 2 * NODE_SIZE,
                                           MAX_HEIGHT - 2 * NODE_SIZE), cooler_is_on)),
              Fan(u, Point(NODE_SIZE, 0), Point(0, 2), TRUE)),
         Sensor(u, Point(2 * NODE_SIZE, 2 * NODE_SIZE)))

Devices(sp) == {k \in DOMAIN sp : sp[k].kind \in {"Heater", "AirConditioner", "Fan"}}

Sensors(sp) == {k \in DOMAIN sp : sp[k].kind = "Sensor"}

InitControl ==
    \E u \in InitialConditions : \E h \in BOOLEAN, c \in BOOLEAN :
        LET r == ControlLayout(u, h, c)
        IN  /\ ui = u
            /\ running = TRUE
            /\ grids = << GridObject(Point(0, 0), <<ROWS, COLS>>) >>
            /\ points = << >>
            /\ calls = 0
            /\ specs = r[1]
            /\ grid_map = r[2]
            /\ grid_keys = MainGridKeys
            /\ grid_size = <<ROWS, COLS>>
            /\ hor_grid = << >>
            /\ vert_grid = << >>
            /\ controller = Controller
            /\ setpoint_value = 20
            /\ tick = 0
            /\ last = Call("", None, Point(0, 0), "")

\* the devices are handed to the sensors and to the controller before the
\* main loop starts (main.py:256-278)
SettingUp == last.op \in {"", "set_device", "add_devices"}

\* sensor.set_device(device)
SetDevice(sensor, device) ==
    /\ SettingUp
    /\ Len(specs[sensor].devices) < MaxDevices
    /\ specs' = set_device(specs, sensor, device)
    /\ last' = Call("set_device", sensor, Point(0, 0), "")
    /\ UNCHANGED <<grid_map, grid_keys, grid_size, hor_grid, vert_grid, controller,
                   ui, setpoint_value, tick,
                   running, grids, points, calls>>

\* controller.add_devices(devices)
AddDevices(devices) ==
    /\ SettingUp
    /\ Len(controller.devices) + Len(devices) <= MaxDevices + 1
    /\ controller' = add_devices(controller, devices)
    /\ last' = Call("add_devices", None, Point(0, 0), "")
    /\ UNCHANGED <<grid_map, grid_keys, grid_size, hor_grid, vert_grid, specs,
                   ui, setpoint_value, tick,
                   running, grids, points, calls>>

\* SimulationManager.updateSliderValue(value, "SliderTempSetPointAuto")
UpdateSliderValue(value) ==
    /\ setpoint_value' = value
    /\ last' = Call("updateSliderValue", None, Point(0, 0), "")
    /\ UNCHANGED <<grid_map, grid_keys, grid_size, hor_grid, vert_grid, specs,
                   controller, ui, tick,
                   running, grids, points, calls>>

\* sensor.check_temperature(setpoint_value)
CheckTemperature(sensor) ==
    /\ specs' = check_temperature(grid_map, specs, sensor, setpoint_value)
    /\ last' = Call("check_temperature", sensor, Point(0, 0), "")
    /\ UNCHANGED <<grid_map, grid_keys, grid_size, hor_grid, vert_grid, controller,
                   ui, setpoint_value, tick,
                   running, grids, points, calls>>

\* controller.auto_mode(node.temperature, setpoint_value), node the sensor's node
AutoMode(sensor) ==
    \E l \in specs[sensor].spec_map :
        /\ LET r == auto_mode(specs, controller, grid_map[l].temperature, setpoint_value)
           IN  /\ specs' = r[1]
               /\ controller' = r[2]
        /\ last' = Call("auto_mode", sensor, l, "")
        /\ UNCHANGED <<grid_map, grid_keys, grid_size, hor_grid, vert_grid, ui,
                       setpoint_value, tick,
                   running, grids, points, calls>>

NextControl ==
    \/ \E sensor \in Sensors(specs), device \in Devices(specs) : SetDevice(sensor, device)
    \/ \E devices \in {OfKinds(specs, {"Heater", "AirConditioner"}),
                       OfKinds(specs, {"Fan"})} : AddDevices(devices)
    \/ \E value \in SetPoints : UpdateSliderValue(value)
    \/ \E sensor \in Sensors(specs) : CheckTemperature(sensor)
    \/ \E sensor \in Sensors(specs) : AutoMode(sensor)
    \/ HeatingMode
    \/ CoolingMode
    \/ VentilationMode

SpecControl == InitControl /\ [][NextControl]_vars

-----------------------------------------------------------------------------
(* The Controller's methods alone, called in any order *)

\* controller.add_devices(devices), before or after a mode has been set
AddDevicesAnytime(devices) ==
    /\ Len(controller.devices) + Len(devices) <= MaxDevices + 1
    /\ controller' = add_devices(controller, devices)
    /\ last' = Call("add_devices", None, Point(0, 0), "")
    /\ UNCHANGED <<grid_map, grid_keys, grid_size, hor_grid, vert_grid, specs,
                   ui, setpoint_value, tick, running, grids, points, calls>>

NextModes ==
    \/ \E devices \in {OfKinds(specs, {"Heater", "AirConditioner"}),
                       OfKinds(specs, {"Fan"})} : AddDevicesAnytime(devices)
    \/ \E value \in SetPoints : UpdateSliderValue(value)
    \/ \E sensor \in Sensors(specs) : AutoMode(sensor)
    \/ HeatingMode
    \/ CoolingMode
    \/ VentilationMode

SpecModes == InitControl /\ [][NextModes]_vars

-----------------------------------------------------------------------------
(* The Node methods, called one node at a time on a constructed layout *)

\* the nodes the methods are called on: the grid's first two nodes, the nodes
\* one, two and three cells in on the diagonal, the node diagonally below
\* left of the middle one, a node of the bottom row and a node of the far
\* right column
ProbeNodes ==
    { Point(0, 0), Point(0, NODE_SIZE), Point(NODE_SIZE, NODE_SIZE),
      Point(2 * NODE_SIZE, 2 * NODE_SIZE), Point(3 * NODE_SIZE, 3 * NODE_SIZE),
      Point(NODE_SIZE, 3 * NODE_SIZE),
      Point(NODE_SIZE, MAX_HEIGHT - NODE_SIZE),
      Point(MAX_WIDTH - NODE_SIZE, NODE_SIZE) }

\* the effect of a Node method on the node at l that leaves gm, hor and vert
NodeCalled(op, l, gm, hor, vert) ==
    /\ calls < MaxCalls
    /\ calls' = calls + 1
    /\ grid_map' = gm
    /\ hor_grid' = hor
    /\ vert_grid' = vert
    /\ last' = Call(op, None, l, "")
    /\ UNCHANGED <<grid_keys, grid_size, specs, controller, ui, setpoint_value,
                   tick, running, grids, points>>

\* grid.grid_map[l].change_color(grid)
ChangeColor(l) ==
    NodeCalled("change_color", l, change_color(grid_map, specs, l), hor_grid, vert_grid)

\* grid.grid_map[l].update_airflow(grid, hor_grid, vert_grid)
UpdateAirflow(l) ==
    LET hv == update_airflow(grid_map, specs, hor_grid, vert_grid, l)
    IN  NodeCalled("update_airflow", l, grid_map, hv[1], hv[2])

\* grid.grid_map[l].calculate_velocity_magnitude(hor_grid, vert_grid)
CalculateVelocityMagnitude(l) ==
    NodeCalled("calculate_velocity_magnitude", l,
               calculate_velocity_magnitude(grid_map, hor_grid, vert_grid, l),
               hor_grid, vert_grid)

NextNode ==
    \/ \E l \in ProbeNodes : ChangeColor(l)
    \/ \E l \in ProbeNodes : UpdateAirflow(l)
    \/ \E l \in ProbeNodes : CalculateVelocityMagnitude(l)

SpecNode == InitSim /\ [][NextNode]_vars

-----------------------------------------------------------------------------
(* The node loop of a tick, one method call at a time *)

\* the nodes the loop calls the methods on, in grid_map's order: main.py:353
\* skips the nodes of the legend
LoopNodes ==
    SelectSeq(grid_keys, LAMBDA l : ~ IsKind(specs, grid_map[l].spec, "TemperatureScale"))

\* the calls of main.py:355-357
NodeMethods == << "change_color", "update_airflow", "calculate_velocity_magnitude" >>

\* the number of method calls of one tick
ScheduleLen == Len(NodeMethods) * Len(LoopNodes)

\* mutant: a pass of change_color over all nodes, then a pass of the two
\* velocity methods
Schedule_TwoPasses(i) ==
    IF i <= Len(LoopNodes)
    THEN [op |-> NodeMethods[1], location |-> LoopNodes[i]]
    ELSE LET j == i - Len(LoopNodes) - 1
         IN  [op |-> NodeMethods[2 + (j % 2)], location |-> LoopNodes[(j \div 2) + 1]]

\* the i-th method call of a tick: the loop body makes the three calls on a
\* node before it goes to the next node
Schedule(i) ==
    [op |-> NodeMethods[((i - 1) % Len(NodeMethods)) + 1],
     location |-> LoopNodes[((i - 1) \div Len(NodeMethods)) + 1]]

\* the next call of the loop is op and leaves gm, hor and vert; calls counts
\* the calls made in the current tick
LoopCalled(op, gm, hor, vert) ==
    /\ running
    /\ tick < MaxTicks
    /\ calls < ScheduleLen
    /\ Schedule(calls + 1).op = op
    /\ grid_map' = gm
    /\ hor_grid' = hor
    /\ vert_grid' = vert
    /\ calls' = IF calls + 1 = ScheduleLen THEN 0 ELSE calls + 1
    /\ tick' = IF calls + 1 = ScheduleLen THEN tick + 1 ELSE tick
    /\ last' = Call(op, None, Schedule(calls + 1).location, "")
    /\ UNCHANGED <<grid_keys, grid_size, specs, controller, ui, setpoint_value,
                   running, grids, points>>

\* node.change_color(grid) (main.py:355)
LoopChangeColor ==
    LoopCalled("change_color",
               change_color(grid_map, specs, Schedule(calls + 1).location),
               hor_grid, vert_grid)

\* node.update_airflow(grid, hor_grid, vert_grid) (main.py:356)
LoopUpdateAirflow ==
    LET hv == update_airflow(grid_map, specs, hor_grid, vert_grid,
                             Schedule(calls + 1).location)
    IN  LoopCalled("update_airflow", grid_map, hv[1], hv[2])

\* node.calculate_velocity_magnitude(hor_grid, vert_grid) (main.py:357)
LoopCalculateVelocityMagnitude ==
    LoopCalled("calculate_velocity_magnitude",
               calculate_velocity_magnitude(grid_map, hor_grid, vert_grid,
                                            Schedule(calls + 1).location),
               hor_grid, vert_grid)

NextPass ==
    \/ LoopChangeColor
    \/ LoopUpdateAirflow
    \/ LoopCalculateVelocityMagnitude

SpecPass == InitSim /\ [][NextPass]_vars

-----------------------------------------------------------------------------
(* Several Grid objects *)

\* square extents that fit the screen
SquareSizes == {size \in GridSizes : size[1] = size[2]}

\* Grid(location, size, NODE_SIZE) when a Grid exists already: create_grid
\* and set_neighbors work on self.grid_map, which is the class attribute
\* Grid.grid_map (Model.py:667), the dict of every Grid
AnotherGrid(location, size) ==
    /\ grids # << >>
    /\ Len(grids) < MaxGrids
    /\ grid_map' = set_neighbors(create_grid(grid_map, location, size, NODE_SIZE),
                                 NODE_SIZE)
    /\ grid_keys' = create_grid_keys(grid_keys, location, size, NODE_SIZE)
    /\ grid_size' = size
    /\ grids' = Append(grids, GridObject(location, size))
    /\ last' = Call("Grid", None, location, "")
    /\ UNCHANGED <<specs, hor_grid, vert_grid, controller, ui, setpoint_value, tick,
                   running, points, calls>>

NextGrids ==
    \/ \E size \in SquareSizes : NewGrid(Point(0, 0), size)
    \/ \E size \in SquareSizes, location \in {Point(0, 0), Point(NODE_SIZE, NODE_SIZE)} :
           AnotherGrid(location, size)

SpecGrids == InitLayout /\ [][NextGrids]_vars

-----------------------------------------------------------------------------
(* Point objects and their arithmetic *)

\* Point.__init__: the object's attributes
PointObject(x, y) == [x |-> x, y |-> y]

\* Point.__hash__: the tuple that is hashed
point_hash(self) == <<self.x, self.y>>

\* Point.__eq__ (other is a Point)
point_eq(self, other) == self.x = other.x /\ self.y = other.y

\* Point.__add__: the objects after self + other; the result is self
point_add(ps, self, other) ==
    LET x == ps[self].x + ps[other].x
        ps1 == [ps EXCEPT ![self].x = x]
        y == ps1[self].y + ps1[other].y
    IN  [ps1 EXCEPT ![self].y = y]

\* Point.__mul__: the objects after self * other; the result is self
point_mul(ps, self, other) ==
    [ps EXCEPT ![self].x = @ * other, ![self].y = @ * other]

InCoords(ps) == \A k \in DOMAIN ps : Abs(ps[k].x) <= MaxCoord /\ Abs(ps[k].y) <= MaxCoord

\* p = Point(x, y)
NewPoint(x, y) ==
    /\ Len(points) < MaxPoints
    /\ points' = Append(points, PointObject(x, y))
    /\ last' = Call("Point", Len(points) + 1, Point(x, y), "")
    /\ UNCHANGED <<grid_map, grid_keys, grid_size, specs, hor_grid, vert_grid,
                   controller, ui, setpoint_value, tick, running, grids, calls>>

\* the effect of an operator on self that leaves the objects ps
PointCalled(op, self, ps) ==
    /\ InCoords(ps)
    /\ points' = ps
    /\ last' = Call(op, self, Point(ps[self].x, ps[self].y), "")
    /\ UNCHANGED <<grid_map, grid_keys, grid_size, specs, hor_grid, vert_grid,
                   controller, ui, setpoint_value, tick, running, grids, calls>>

\* points[self] + points[other]
PointAdd(self, other) == PointCalled("__add__", self, point_add(points, self, other))

\* points[self] * k
PointMul(self, k) == PointCalled("__mul__", self, point_mul(points, self, k))

NextPoint ==
    \/ \E x \in {0, 1}, y \in {0, 1} : NewPoint(x, y)
    \/ \E self \in DOMAIN points, other \in DOMAIN points : PointAdd(self, other)
    \/ \E self \in DOMAIN points, k \in {-1, 0, 2} : PointMul(self, k)

SpecPoint == InitLayout /\ [][NextPoint]_vars

-----------------------------------------------------------------------------
(* Claims about the grid and the layout *)

Neighbors(l) == SeqRange(grid_map[l].neighbors)

\* C2: after Grid construction the neighbor relation is symmetric: whenever
\* B's location is in A.neighbors, A's location is in B.neighbors, border
\* nodes included.
C2_NeighborSymmetry ==
    \A a \in DOMAIN grid_map : \A b \in Neighbors(a) :
        b \in DOMAIN grid_map /\ a \in Neighbors(b)

\* a grid with a border node and an inner node that are neighbors of each other
C2_Witness ==
    /\ grid_size = <<ROWS, COLS>>
    /\ \E a \in DOMAIN grid_map : \E b \in Neighbors(a) :
          /\ a # b
          /\ Px(a) = 0
          /\ Px(b) > 0 /\ Py(b) > 0

\* b is one cell away from a in x and one cell away in y
DiagonalStep(a, b) ==
    Abs(Px(b) - Px(a)) = NODE_SIZE /\ Abs(Py(b) - Py(a)) = NODE_SIZE

Covers(s, l) ==
    IF s.kind = "Outdoors" THEN l \in DOMAIN grid_map
    ELSE l \in Footprint(s.location, s.spec_size)

Kinds == {specs[k].kind : k \in DOMAIN specs}

\* C3: once the layout holds Outdoors, every node has exactly one spec, a
\* constructed one (never None), and every coordinate of every spec's
\* spec_map is a coordinate of the grid.
C3_SpecCoverage ==
    /\ "Outdoors" \in Kinds =>
          \A l \in DOMAIN grid_map : grid_map[l].spec \in DOMAIN specs
    /\ \A k \in DOMAIN specs : spec_map_keys(grid_map, specs[k]) \subseteq DOMAIN grid_map

\* the full layout in run_simulation's order (a Wall where main.py has a Room
\* with its Wall), with nodes of several kinds
C3_Witness ==
    /\ Kinds = {"Outdoors", "Wall", "Door", "Heater", "AirConditioner", "Fan",
                "Sensor", "TemperatureScale"}
    /\ specs[1].kind = "Outdoors"
    /\ specs[Len(specs)].kind = "TemperatureScale"
    /\ \A l \in DOMAIN grid_map : grid_map[l].spec \in DOMAIN specs
    /\ \E l \in DOMAIN grid_map : IsKind(specs, grid_map[l].spec, "Outdoors")
    /\ \E l \in DOMAIN grid_map : IsKind(specs, grid_map[l].spec, "Wall")

DoorFootprint(location) == Footprint(location, <<DOOR_SIZE, DOOR_SIZE>>)

\* C4: a step that constructs a Door changes the spec or the temperature of a
\* node only if the node lies in the Door's footprint and its spec was a Wall
\* just before; every other node keeps both.
C4_DoorOnlyOverWall ==
    [][last'.op = "Door" =>
        \A l \in DOMAIN grid_map :
            \/ /\ l \in DoorFootprint(last'.location)
               /\ IsKind(specs, grid_map[l].spec, "Wall")
            \/ /\ grid_map'[l].spec = grid_map[l].spec
               /\ grid_map'[l].temperature = grid_map[l].temperature]_vars

\* a Door just constructed over a footprint that held a Wall cell, now the
\* Door's, and a cell that was not Wall, which kept its spec
C4_Witness ==
    /\ last.op = "Door" /\ last.raised = ""
    /\ \E l \in DoorFootprint(last.location) : grid_map[l].spec = last.id
    /\ \E l \in DoorFootprint(last.location) :
          /\ grid_map[l].spec # last.id
          /\ ~ IsKind(specs, grid_map[l].spec, "Wall")

\* the spec that wrote node l last among the first n constructions; a Door
\* writes only where the writer before it was a Wall
RECURSIVE LastWriter(_, _)
LastWriter(l, n) ==
    IF n = 0 THEN None
    ELSE LET before == LastWriter(l, n - 1)
         IN  IF /\ Covers(specs[n], l)
                /\ (specs[n].kind = "Door" => IsKind(specs, before, "Wall"))
             THEN n
             ELSE before

\* C8: after any sequence of constructions each node's spec is the most recently
\* constructed spec whose footprint covers the node, a Door counting only for
\* the nodes that were Wall when it was constructed (and the node's
\* temperature is that spec's).
C8_LastWriterWins ==
    \A l \in DOMAIN grid_map :
        /\ grid_map[l].spec = LastWriter(l, Len(specs))
        /\ grid_map[l].spec # None =>
              grid_map[l].temperature = specs[grid_map[l].spec].temperature

\* a node under two specs of different kinds, neither Outdoors nor a Door,
\* which has the later one; the other order would leave it the earlier one
C8_Witness ==
    \E l \in DOMAIN grid_map : \E i, j \in DOMAIN specs :
        /\ i < j
        /\ specs[i].kind \notin {"Outdoors", "Door", specs[j].kind}
        /\ specs[j].kind \notin {"Outdoors", "Door"}
        /\ Covers(specs[i], l) /\ Covers(specs[j], l)
        /\ grid_map[l].spec = j

\* the block of the largest Room at l with its surrounding Wall
LargestBlock(l) ==
    Footprint(Point(Px(l) - WALL_THICKNESS, Py(l) - WALL_THICKNESS),
              <<MaxRoom + 2, MaxRoom + 2>>)

\* C24: constructing a Room of w x h cells at L on a grid that contains the
\* whole (w+2) x (h+2) block starting one cell up-left of L succeeds; then
\* exactly the w x h interior nodes have the Room as spec, exactly the ring
\* around them has the Room's own Wall as spec, and the nodes outside the
\* block keep their spec.
C24_RoomWithWall ==
    [][(last'.op = "Room" /\ LargestBlock(last'.location) \subseteq DOMAIN grid_map) =>
          /\ last'.raised = ""
          /\ IsKind(specs', last'.id, "Room")
          /\ IsKind(specs', specs'[last'.id].wall, "Wall")
          /\ LET r == specs'[last'.id]
                 w == specs'[r.wall]
                 interior == Footprint(r.location, r.spec_size)
                 block == Footprint(w.location, w.spec_size)
             IN  /\ w.location = Point(Px(r.location) - WALL_THICKNESS,
                                       Py(r.location) - WALL_THICKNESS)
                 /\ w.spec_size = <<r.spec_size[1] + 2, r.spec_size[2] + 2>>
                 /\ \A l \in DOMAIN grid_map :
                       grid_map'[l].spec =
                           IF l \in interior THEN last'.id
                           ELSE IF l \in block THEN r.wall
                           ELSE grid_map[l].spec]_vars

\* the operations that construct a spec
Constructors ==
    {"Outdoors", "Room", "Wall", "Door", "Heater", "AirConditioner", "Fan",
     "Sensor", "TemperatureScale"}

\* C29: a construction whose rectangular footprint contains a coordinate that
\* is not a node of the grid fails (a construction that succeeds has its whole
\* footprint on the grid), and a construction that fails leaves every node's
\* spec and temperature, and the specs constructed so far, as they were.
C29_FailedPlacement ==
    [][last'.op \in Constructors =>
          IF last'.raised = ""
          THEN \/ specs'[last'.id].kind = "Outdoors"
               \/ Footprint(specs'[last'.id].location, specs'[last'.id].spec_size)
                      \subseteq DOMAIN grid_map
          ELSE /\ specs' = specs
               /\ \A l \in DOMAIN grid_map :
                     /\ grid_map'[l].spec = grid_map[l].spec
                     /\ grid_map'[l].temperature = grid_map[l].temperature]_vars

\* a Wall whose footprint leaves the grid has failed over a layout whose
\* nodes had a spec
C29_Witness ==
    /\ last.op = "Wall"
    /\ last.raised = "KeyError"
    /\ \E l \in DOMAIN grid_map : grid_map[l].spec # None

-----------------------------------------------------------------------------
(* Claims about the simulation loop *)

\* the nodes whose spec is a device of the given kind that is on
ActiveNodes(kind) ==
    {l \in DOMAIN grid_map :
        IsKind(specs, grid_map[l].spec, kind) /\ specs[grid_map[l].spec].is_on}

\* C1: after each tick, every node whose spec is a Heater or an AirConditioner
\* that is on has that spec's emit_temperature as its temperature, whatever
\* its neighbours' temperatures are.
C1_HeaterBoundary ==
    last.op = "tick" =>
        \A l \in ActiveNodes("Heater") \cup ActiveNodes("AirConditioner") :
            grid_map[l].temperature = specs[grid_map[l].spec].emit_temperature

\* after the second tick, a Heater node and an AirConditioner node, both on,
\* hold their emit temperatures next to neighbours at other temperatures
C1_Witness ==
    /\ last.op = "tick"
    /\ tick >= 2
    /\ \A kind \in {"Heater", "AirConditioner"} :
          \E l \in ActiveNodes(kind) :
              /\ grid_map[l].temperature = specs[grid_map[l].spec].emit_temperature
              /\ specs[grid_map[l].spec].emit_temperature # specs[grid_map[l].spec].temperature
              /\ \E n \in Neighbors(l) :
                    grid_map[n].temperature # grid_map[l].temperature

\* the footprint of a Wall block, its outer ring, and what the ring encloses
Block(w) == Footprint(specs[w].location, specs[w].spec_size)

Ring(w) ==
    {l \in Block(w) :
        \/ Px(l) = Px(specs[w].location)
        \/ Py(l) = Py(specs[w].location)
        \/ Px(l) = Px(specs[w].location) + (specs[w].spec_size[1] - 1) * NODE_SIZE
        \/ Py(l) = Py(specs[w].location) + (specs[w].spec_size[2] - 1) * NODE_SIZE}

Inside(w) == Block(w) \ Ring(w)

\* a closed room: a Wall block whose ring is all Wall, with nothing but an
\* active Fan inside
ClosedRoom(w) ==
    /\ IsKind(specs, w, "Wall")
    /\ \A l \in Ring(w) : grid_map[l].spec = w
    /\ Inside(w) # {}
    /\ Inside(w) \subseteq ActiveNodes("Fan")

\* East - West - South + North of a node's four face velocities
LocalDivergence(l) ==
    LET f == Faces(grid_map[l], hor_grid, vert_grid)
    IN  f[EAST] - f[WEST] - f[SOUTH] + f[NORTH]

\* C7: in a closed room (Wall on the whole boundary, an active Fan inside),
\* after a tick's update_airflow the local divergence of every node inside
\* the walls is below the tolerance 0.01 in absolute value.
C7_DivergenceConverged ==
    last.op = "tick" =>
        \A w \in DOMAIN specs :
            ClosedRoom(w) =>
                \A l \in Inside(w) : Abs(LocalDivergence(l)) < DIVERGENCE_TOLERANCE

\* the heater of the heating scenario: the layout is Outdoors and one Heater,
\* on, hotter than the rest, which all started at one temperature
Scenario(h) ==
    /\ [k \in DOMAIN specs |-> specs[k].kind] = <<"Outdoors", "Heater">>
    /\ h = 2
    /\ specs[h].is_on
    /\ specs[1].temperature = specs[h].temperature
    /\ specs[h].emit_temperature > specs[h].temperature

\* the nodes next to the heat source, by the grid's neighbor lists
Adjacent(h) ==
    UNION {Neighbors(l) : l \in specs[h].spec_map} \ specs[h].spec_map

GridCorners ==
    {Point(x, y) : x \in {0, MAX_WIDTH - NODE_SIZE}, y \in {0, MAX_HEIGHT - NODE_SIZE}}

Distance(a, b) == Abs(Px(a) - Px(b)) + Abs(Py(a) - Py(b))

\* the corners of the grid that are farthest from the heater
FarthestCorners(h) ==
    {c \in GridCorners : \A d \in GridCorners :
        Distance(c, specs[h].location) >= Distance(d, specs[h].location)}

\* the sum of the temperatures gm holds at the locations S
RECURSIVE TotalTemperature(_, _)
TotalTemperature(gm, S) ==
    IF S = {} THEN 0
    ELSE LET l == CHOOSE n \in S : TRUE
         IN  gm[l].temperature + TotalTemperature(gm, S \ {l})

\* C15: in a room of uniform initial temperature with one node held at a
\* higher heater temperature, at every tick the mean temperature of the nodes
\* adjacent to the heat source does not decrease and does not exceed the
\* heater value, and the farthest corner's temperature does not decrease and
\* stays at or below the mean of the adjacent nodes.
C15_HeatingScenario ==
    [][\A h \in DOMAIN specs :
          (Scenario(h) /\ last'.op = "tick") =>
              LET n == Cardinality(Adjacent(h))
              IN  /\ TotalTemperature(grid_map', Adjacent(h))
                         >= TotalTemperature(grid_map, Adjacent(h))
                  /\ TotalTemperature(grid_map', Adjacent(h))
                         <= n * specs[h].emit_temperature
                  /\ \A c \in FarthestCorners(h) :
                        /\ grid_map'[c].temperature >= grid_map[c].temperature
                        /\ n * grid_map'[c].temperature
                               <= TotalTemperature(grid_map', Adjacent(h))]_vars

\* after two ticks of the scenario the adjacent nodes are warmer than they
\* started and cooler than the heater, and a farthest corner has warmed, less
C15_Witness ==
    /\ last.op = "tick"
    /\ tick >= 2
    /\ \E h \in DOMAIN specs :
          /\ Scenario(h)
          /\ LET n == Cardinality(Adjacent(h))
                 total == TotalTemperature(grid_map, Adjacent(h))
             IN  /\ total > n * specs[h].temperature
                 /\ total < n * specs[h].emit_temperature
                 /\ \E c \in FarthestCorners(h) :
                       /\ grid_map[c].temperature > specs[h].temperature
                       /\ n * grid_map[c].temperature < total

\* the nodes of the legend, which the node loop skips
LegendNodes == {l \in DOMAIN grid_map : IsKind(specs, grid_map[l].spec, "TemperatureScale")}

\* C11: within one tick the new temperature of every node is computed from
\* the temperatures that it and its neighbours had at the start of the tick:
\* no temperature written during the pass is read by another node's update.
C11_SnapshotRead ==
    [][last'.op = "tick" =>
          \A l \in DOMAIN grid_map \ LegendNodes :
              grid_map'[l].temperature = set_temperature(grid_map, specs, l)]_vars


\* s is t or a beginning of t
IsPrefix(s, t) == Len(s) <= Len(t) /\ \A k \in DOMAIN s : s[k] = t[k]

\* C12: sensor history is append-only: for every sensor, the data sequence
\* before a step is a prefix of the data sequence after it.
C12_AppendOnly ==
    [][\A k \in DOMAIN specs :
          specs[k].kind = "Sensor" => IsPrefix(specs[k].data, specs'[k].data)]_vars


\* C27: at the end of every tick, each of the four face velocities of every
\* Wall node that is not on the far border is 0, a face shared with a Fan
\* node that is processed later in the tick included.
C27_NoFlowThroughWalls ==
    last.op = "tick" =>
        \A l \in DOMAIN grid_map :
            (IsKind(specs, grid_map[l].spec, "Wall") /\ ~ OnFarBorder(l)) =>
                Faces(grid_map[l], hor_grid, vert_grid) = <<0, 0, 0, 0>>

\* the controller's modes
Modes == {"Heating", "Cooling", "Ventilation", "Auto"}

\* the temperatures of the nodes whose spec is a Sensor
SensorTemperatures ==
    {grid_map[l].temperature :
        l \in {n \in DOMAIN grid_map : IsKind(specs, grid_map[n].spec, "Sensor")}}

\* what a temperature check may do to current_mode: leave it, or take it from
\* Heating to Auto when a sensor node is above the heater temperature, or from
\* Cooling to Auto when a sensor node is below the cooler temperature
CheckTransition ==
    \/ controller'.current_mode = controller.current_mode
    \/ /\ controller.current_mode = "Heating"
       /\ controller'.current_mode = "Auto"
       /\ \E t \in SensorTemperatures : t > Deg(ui.heater_initial_temperature)
    \/ /\ controller.current_mode = "Cooling"
       /\ controller'.current_mode = "Auto"
       /\ \E t \in SensorTemperatures : t < Deg(ui.cooler_initial_temperature)

-----------------------------------------------------------------------------
(* Claims about the Sensor and the Controller *)

\* the temperature of a sensor's node
SensorTemperature(sensor) ==
    grid_map[CHOOSE l \in specs[sensor].spec_map : TRUE].temperature

Below(t) == t < Deg(setpoint_value) - Deg(TOLERANCE)

Above(t) == t > Deg(setpoint_value) + Deg(TOLERANCE)

\* C5: Sensor.check_temperature(setpoint) with sensor temperature T: below
\* setpoint - TOLERANCE the sensor's Heaters end on and its other devices
\* off; above setpoint + TOLERANCE its AirConditioners end on and its other
\* devices off; from setpoint - TOLERANCE to setpoint + TOLERANCE every device
\* keeps its is_on.
C5_Hysteresis ==
    [][last'.op = "check_temperature" =>
          LET t == SensorTemperature(last'.id)
          IN  \A d \in SeqRange(specs[last'.id].devices) :
                  specs'[d].is_on =
                      IF Below(t) THEN specs[d].kind = "Heater"
                      ELSE IF Above(t) THEN specs[d].kind = "AirConditioner"
                      ELSE specs[d].is_on]_vars

\* check_temperature found the sensor above the band, with a Heater and an
\* AirConditioner among its devices: the AirConditioner is on, the Heater off
C5_Witness ==
    /\ last.op = "check_temperature"
    /\ Above(SensorTemperature(last.id))
    /\ \E h \in SeqRange(specs[last.id].devices) :
       \E c \in SeqRange(specs[last.id].devices) :
           /\ specs[h].kind = "Heater" /\ ~ specs[h].is_on
           /\ specs[c].kind = "AirConditioner" /\ specs[c].is_on

\* C6: check_temperature applied again, and again, with the same sensor
\* temperature and setpoint leaves what one application left; strictly inside
\* the band one application changes nothing.
C6_Idempotent ==
    [][last'.op = "check_temperature" =>
          LET t == SensorTemperature(last'.id)
              twice == check_temperature(grid_map', specs', last'.id, setpoint_value')
              thrice == check_temperature(grid_map', twice, last'.id, setpoint_value')
          IN  /\ twice = specs'
              /\ thrice = specs'
              /\ (t > Deg(setpoint_value) - Deg(TOLERANCE)
                    /\ t < Deg(setpoint_value) + Deg(TOLERANCE)) => specs' = specs]_vars

\* check_temperature found the sensor below the band and turned its Heater
\* on and another of its devices off
C6_Witness ==
    /\ last.op = "check_temperature"
    /\ Below(SensorTemperature(last.id))
    /\ \E h \in SeqRange(specs[last.id].devices) :
       \E d \in SeqRange(specs[last.id].devices) :
           /\ specs[h].kind = "Heater" /\ specs[h].is_on
           /\ specs[d].kind # "Heater" /\ ~ specs[d].is_on

Registered == SeqRange(controller.devices)

\* the devices' flags after a mode method that turns the given class on
OnlyOn(kind) == \A d \in Registered : specs[d].is_on = (specs[d].kind = kind)

\* C9: after heating_mode (cooling_mode, ventilation_mode) every registered
\* Heater (AirConditioner, Fan) is on, every other registered device is off,
\* and current_mode is "Heating" ("Cooling", "Ventilation").
C9_ModeEntry ==
    /\ last.op = "heating_mode" =>
          OnlyOn("Heater") /\ controller.current_mode = "Heating"
    /\ last.op = "cooling_mode" =>
          OnlyOn("AirConditioner") /\ controller.current_mode = "Cooling"
    /\ last.op = "ventilation_mode" =>
          OnlyOn("Fan") /\ controller.current_mode = "Ventilation"

\* ventilation_mode with a Heater, an AirConditioner and a Fan registered
C9_Witness ==
    /\ last.op = "ventilation_mode"
    /\ {specs[d].kind : d \in Registered} = {"Heater", "AirConditioner", "Fan"}
    /\ OnlyOn("Fan")

\* C10: after auto_mode(temperature, setpoint): below setpoint - TOLERANCE
\* only the registered Heaters are on, above setpoint + TOLERANCE only the
\* AirConditioners, otherwise only the Fans; current_mode is "Auto" in all
\* three cases.
C10_AutoMode ==
    last.op = "auto_mode" =>
        LET t == grid_map[last.location].temperature
        IN  /\ OnlyOn(IF Below(t) THEN "Heater"
                      ELSE IF Above(t) THEN "AirConditioner"
                      ELSE "Fan")
            /\ controller.current_mode = "Auto"

\* auto_mode inside the band with a Heater and a Fan registered: Ventilation
C10_Witness ==
    /\ last.op = "auto_mode"
    /\ ~ Below(grid_map[last.location].temperature)
    /\ ~ Above(grid_map[last.location].temperature)
    /\ {"Heater", "Fan"} \subseteq {specs[d].kind : d \in Registered}
    /\ OnlyOn("Fan")
    /\ controller.current_mode = "Auto"

\* the names of the Controller's mode operations
ModeOps == {"heating_mode", "cooling_mode", "ventilation_mode", "auto_mode"}

\* no Heater and AirConditioner registered in the controller are both on
Exclusive ==
    ~ \E h, a \in Registered :
        /\ IsKind(specs, h, "Heater") /\ specs[h].is_on
        /\ IsKind(specs, a, "AirConditioner") /\ specs[a].is_on

\* C28, as stated: after any sequence of Controller operations that contains
\* a mode operation (current_mode has been set), no Heater and AirConditioner
\* registered in the controller are both on.
C28_MutuallyExclusive == controller.current_mode # "" => Exclusive

\* C28, amended: every mode operation leaves no Heater and AirConditioner
\* registered in the controller both on, and every Controller operation but
\* add_devices keeps it so.
C28_ExclusiveUntilAdded ==
    [][/\ last'.op \in ModeOps => Exclusive'
       /\ (Exclusive /\ last'.op # "add_devices") => Exclusive']_vars

\* heating_mode has turned the registered AirConditioner off and the
\* registered Heater on
C28_Witness ==
    /\ last.op = "heating_mode"
    /\ \E h, a \in Registered :
          /\ IsKind(specs, h, "Heater") /\ specs[h].is_on
          /\ IsKind(specs, a, "AirConditioner") /\ ~ specs[a].is_on

-----------------------------------------------------------------------------
(* Claims about the Node methods *)

\* within one cell size of the grid's far edges
FarEdge(l) == Px(l) + NODE_SIZE >= MAX_WIDTH \/ Py(l) + NODE_SIZE >= MAX_HEIGHT

\* a far-edge node has no velocity references and untouched velocity fields;
\* every other node has four, each an entry of its staggered grid
VelocityReferences ==
    \A l \in DOMAIN grid_map :
        LET node == grid_map[l]
        IN  IF FarEdge(l)
            THEN /\ node.velocity_nodes = << >>
                 /\ node.velocity_u = 0
                 /\ node.velocity_v = 0
                 /\ node.velocity_magnitude = 0
            ELSE /\ Len(node.velocity_nodes) = 4
                 /\ node.velocity_nodes[EAST] \in DOMAIN hor_grid
                 /\ node.velocity_nodes[WEST] \in DOMAIN hor_grid
                 /\ node.velocity_nodes[SOUTH] \in DOMAIN vert_grid
                 /\ node.velocity_nodes[NORTH] \in DOMAIN vert_grid

\* C13: a node with x + cell size >= MAX_WIDTH or y + cell size >= MAX_HEIGHT
\* has no velocity references, and update_airflow and
\* calculate_velocity_magnitude on it change no face velocity and none of its
\* velocity fields; every other node has exactly four references, East and
\* West in the horizontal grid, South and North in the vertical grid.
C13_BorderPolicy ==
    /\ []VelocityReferences
    /\ [][(/\ last'.op \in {"update_airflow", "calculate_velocity_magnitude"}
           /\ FarEdge(last'.location))
              => UNCHANGED <<grid_map, hor_grid, vert_grid>>]_vars

\* update_airflow was called on a far-edge node while air was moving
C13_Witness ==
    /\ last.op = "update_airflow"
    /\ FarEdge(last.location)
    /\ \E f \in DOMAIN vert_grid : vert_grid[f] # 0

\* C14: when update_airflow stops without having reached the tolerance it
\* reports a not-converged condition.
C14_ReportsNotConverged ==
    (/\ last.op = "update_airflow"
     /\ ~ FarEdge(last.location)
     /\ Abs(LocalDivergence(last.location)) >= DIVERGENCE_TOLERANCE)
        => last.raised # ""

\* the neighbours of the node at l that its temperature update sums over:
\* all of them, but for a Sensor node those whose spec is not a Wall
Summed(l) ==
    IF IsKind(specs, grid_map[l].spec, "Sensor")
    THEN {n \in Neighbors(l) : ~IsKind(specs, grid_map[n].spec, "Wall")}
    ELSE Neighbors(l)

\* sum over the nodes n of S of n.spec.heat_k * (n.temperature - old)
RECURSIVE Exchange(_, _)
Exchange(S, old) ==
    IF S = {} THEN 0
    ELSE LET n == CHOOSE m \in S : TRUE
         IN  heat_term(specs[grid_map[n].spec].heat_k, grid_map[n].temperature - old)
                 + Exchange(S \ {n}, old)

\* the nodes the general update rule is stated for
GeneralNodes ==
    DOMAIN grid_map
        \ (LegendNodes \cup ActiveNodes("Heater") \cup ActiveNodes("AirConditioner"))

\* C19: for a node that is neither a legend node nor an active Heater or
\* AirConditioner node, the temperature update gives old_temperature plus the
\* sum over its neighbours n of n.spec.heat_k * (n.temperature -
\* old_temperature), each term weighted by the neighbour's heat_k; Wall
\* neighbours are left out exactly when the node's spec is a Sensor, and a
\* Heater or AirConditioner that is off is updated by the same rule.
C19_UpdateFormula ==
    [][(last'.op = "change_color" /\ last'.location \in GeneralNodes) =>
          LET l == last'.location
              old == grid_map[l].temperature
          IN  grid_map'[l].temperature = old + Exchange(Summed(l), old)]_vars

\* the update has been applied to a Sensor node when one of its Wall
\* neighbours was at another temperature than the Sensor node
C19_Witness ==
    /\ last.op = "change_color"
    /\ last.location \in GeneralNodes
    /\ IsKind(specs, grid_map[last.location].spec, "Sensor")
    /\ \E n \in Neighbors(last.location) :
          /\ IsKind(specs, grid_map[n].spec, "Wall")
          /\ grid_map[n].temperature # Deg(ui.indoor_initial_temperature)

\* C20: the temperature update, applied through change_color to a node whose
\* spec is the TemperatureScale legend, leaves the node's temperature equal
\* to its previous value.
C20_LegendFrozen ==
    [][(last'.op = "change_color" /\ last'.location \in LegendNodes) =>
          grid_map'[last'.location].temperature
              = grid_map[last'.location].temperature]_vars

\* the four face velocities of the node at l
FacesAt(l) == Faces(grid_map[l], hor_grid, vert_grid)

\* the same, after the step
FacesAfter(l) == Faces(grid_map[l], hor_grid', vert_grid')

\* the node at l is not on the far border and its spec is a Fan that is on
ActiveFan(l) ==
    /\ ~ OnFarBorder(l)
    /\ IsKind(specs, grid_map[l].spec, "Fan")
    /\ specs[grid_map[l].spec].is_on

\* C21: update_airflow injects airflow only for a non-border node whose spec
\* is a Fan that is on: emit_airflow * direction.x goes to the East face if
\* direction.x >= 0 and to the West face otherwise, emit_airflow * direction.y
\* to the South face if direction.y >= 0 and to the North face otherwise (a
\* blocked face holds 0); for any other node, a Fan that is off included, no
\* face takes a value other than the one it had or 0.
C21_FanSourceTerm ==
    [][last'.op = "update_airflow" =>
          LET l == last'.location
              s == specs[grid_map[l].spec]
              dx == Px(s.direction)
              dy == Py(s.direction)
          IN  IF OnFarBorder(l) THEN UNCHANGED <<hor_grid, vert_grid>>
              ELSE IF ActiveFan(l)
              THEN /\ FacesAfter(l)[IF dx >= 0 THEN EAST ELSE WEST] \in {Emitted(s, dx), 0}
                   /\ FacesAfter(l)[IF dy >= 0 THEN SOUTH ELSE NORTH] \in {Emitted(s, dy), 0}
              ELSE \A c \in 1 .. 4 : FacesAfter(l)[c] \in {FacesAt(l)[c], 0}]_vars

\* the grid cells that touch the cell at l by a side or a corner
Around(l) ==
    {n \in DOMAIN grid_map :
        /\ n # l
        /\ Abs(Px(n) - Px(l)) <= NODE_SIZE
        /\ Abs(Py(n) - Py(l)) <= NODE_SIZE}

\* C22: update_airflow on a non-wall, non-border node leaves at 0 the face
\* towards every Wall cell among the eight cells around the node: West for a
\* Wall cell to the west, East for one to the east, North for one directly
\* north (same x, smaller y), South for one directly south (same x, larger y).
C22_WallBlocking ==
    [][(/\ last'.op = "update_airflow"
        /\ ~ OnFarBorder(last'.location)
        /\ ~ IsKind(specs, grid_map[last'.location].spec, "Wall")) =>
          LET l == last'.location
          IN  \A n \in Around(l) :
                IsKind(specs, grid_map[n].spec, "Wall") =>
                    FacesAfter(l)[IF Px(n) < Px(l) THEN WEST
                                  ELSE IF Px(n) > Px(l) THEN EAST
                                  ELSE IF Py(n) < Py(l) THEN NORTH
                                  ELSE SOUTH] = 0]_vars

\* the neighbours of the node at l whose spec is a Sensor
SensorNeighbors(l) ==
    {n \in Neighbors(l) : IsKind(specs, grid_map[n].spec, "Sensor")}

\* sum over the nodes n of S of K_AIR_GRID * (n.temperature - old)
RECURSIVE AirExchange(_, _)
AirExchange(S, old) ==
    IF S = {} THEN 0
    ELSE LET n == CHOOSE m \in S : TRUE
         IN  heat_term(K_AIR_GRID, grid_map[n].temperature - old)
                 + AirExchange(S \ {n}, old)

\* C23, as stated: in the temperature update of a node, a neighbour whose
\* spec is a Sensor contributes zero to the node's temperature sum.
C23_SensorNoCoupling ==
    [][(last'.op = "change_color" /\ last'.location \in GeneralNodes) =>
          LET l == last'.location
              old == grid_map[l].temperature
          IN  grid_map'[l].temperature
                  = old + Exchange(Summed(l) \ SensorNeighbors(l), old)]_vars

\* C23, amended: in the temperature update of a node, a neighbour whose spec
\* is a Sensor contributes K_AIR_GRID times the difference between its
\* temperature and the node's, as a neighbour of open air does.
C23_SensorCoupling ==
    [][(last'.op = "change_color" /\ last'.location \in GeneralNodes) =>
          LET l == last'.location
              old == grid_map[l].temperature
          IN  grid_map'[l].temperature
                  = old + Exchange(Summed(l) \ SensorNeighbors(l), old)
                        + AirExchange(SensorNeighbors(l), old)]_vars

\* the update has been applied to a node that started at the indoor
\* temperature, after the Sensor node next to it had moved away from it
C23_Witness ==
    /\ last.op = "change_color"
    /\ calls = 2
    /\ last.location \in GeneralNodes
    /\ ~ IsKind(specs, grid_map[last.location].spec, "Outdoors")
    /\ \E n \in SensorNeighbors(last.location) :
          /\ n # last.location
          /\ grid_map[n].temperature # Deg(ui.indoor_initial_temperature)
    /\ grid_map[last.location].temperature # Deg(ui.indoor_initial_temperature)

-----------------------------------------------------------------------------
(* Claims about the calls of a tick *)

\* the nodes change_color has been called on in the current tick
Recomputed ==
    {Schedule(i).location : i \in {j \in 1 .. calls : Schedule(j).op = "change_color"}}

FanNodes ==
    {l \in DOMAIN grid_map :
        IsKind(specs, grid_map[l].spec, "Fan") /\ ~ OnFarBorder(l)}

\* every face that holds a velocity other than 0 is one of the four faces of
\* a Fan node
FlowOnlyAtFans ==
    /\ \A p \in DOMAIN hor_grid :
          hor_grid[p] # 0 =>
              \E l \in FanNodes : p \in {grid_map[l].velocity_nodes[EAST],
                                         grid_map[l].velocity_nodes[WEST]}
    /\ \A p \in DOMAIN vert_grid :
          vert_grid[p] # 0 =>
              \E l \in FanNodes : p \in {grid_map[l].velocity_nodes[SOUTH],
                                         grid_map[l].velocity_nodes[NORTH]}

\* the values a call of update_airflow on the node at l may assign to a face:
\* 0, and for a Fan node the component xy (1 for x, 2 for y) of its
\* emit_airflow * direction
Assigned(l, xy) ==
    IF IsKind(specs, grid_map[l].spec, "Fan")
    THEN {0, Emitted(specs[grid_map[l].spec], specs[grid_map[l].spec].direction[xy])}
    ELSE {0}

\* C26: the divergence correction of update_airflow never runs: when
\* update_airflow returns, every face velocity is the one it had before the
\* call, or 0, or a component of the Fan's emit_airflow * direction; and over
\* any number of ticks a face that is not one of the four faces of a Fan node
\* never holds a velocity other than 0.
C26_NoCorrection ==
    /\ []FlowOnlyAtFans
    /\ [][last'.op = "update_airflow" =>
            /\ \A p \in DOMAIN hor_grid :
                  hor_grid'[p] \in {hor_grid[p]} \cup Assigned(last'.location, 1)
            /\ \A p \in DOMAIN vert_grid :
                  vert_grid'[p] \in {vert_grid[p]} \cup Assigned(last'.location, 2)]_vars

\* in the second tick, update_airflow has returned on a node that is not a
\* Wall and one of whose faces holds a velocity
C26_Witness ==
    /\ tick >= 1
    /\ last.op = "update_airflow"
    /\ ~ OnFarBorder(last.location)
    /\ ~ IsKind(specs, grid_map[last.location].spec, "Wall")
    /\ \E c \in 1 .. 4 : FacesAt(last.location)[c] # 0

-----------------------------------------------------------------------------
(* Claims about several Grid objects *)

\* C16: constructing a second Grid leaves the first Grid's coordinate -> Node
\* map unchanged: the same keys, under every key the Node that was there.
C16_PerInstanceMap ==
    [][(last'.op = "Grid" /\ grids # << >>) =>
          /\ DOMAIN grid_map' = DOMAIN grid_map
          /\ \A l \in DOMAIN grid_map : grid_map'[l] = grid_map[l]]_vars

-----------------------------------------------------------------------------
(* Claims about Point *)

\* C17: addition and scaling leave the coordinates of their operands
\* unchanged: every Point still equals, and hashes to, what it did before.
C17_PointImmutable ==
    [][last'.op \in {"__add__", "__mul__"} =>
          \A k \in DOMAIN points :
              /\ point_eq(points'[k], points[k])
              /\ point_hash(points'[k]) = point_hash(points[k])]_vars

=============================================================================
